---- MODULE Spec2Model ----
(***************************************************************************)
(* Token lifecycle of AzureAuth (src/core/auth.ts): credential            *)
(* acquisition, expiry-gated renewal, storage, the in-flight promise       *)
(* guards and the 401 retry wrapper, under the JavaScript execution model  *)
(* (run-to-completion continuations, FIFO microtask queue, I/O completions *)
(* delivered only when the microtask queue is empty).                      *)
(***************************************************************************)
EXTENDS Integers, Sequences, FiniteSets, TLC

\* ---------------------------------------------------------------- bounds
NCallers == 3
MaxMixed == 2
MaxNow == 2
NFlows == 4
MaxBuilt == 2
MaxAccess == 3
MaxConfigCalls == 2
MaxApplied == 2
MaxName == 7
MaxShort == 3
MaxFiles == 2
MaxId == 3
MaxSaves == 2

Callers == 1..NFlows
GetCallers == 1..NCallers
Mixed == 1..MaxMixed

\* ------------------------------------------------- values of the domain
\* strings are modelled as naturals, 0 being the empty string ""
CfgAT == 1
CfgRT == 2
StoredRT == 3
StoredAT == 4
Secret == 9
DEFAULT_SCOPES == 50
CustomScopes == 51
OtherScopes == 52
FirstIssued == 10
ExpiresIn == 1
Undefined == 0 - 1
\* in a file: the key is not written
Absent == 0 - 2

Truthy(x) == x # 0 /\ x # Undefined

LegacyPath == <<0, 0>>

NoFile ==
  [exists |-> FALSE, wellFormed |-> FALSE, refreshToken |-> 0, accessToken |-> 0,
   expiresAt |-> Undefined, clientId |-> 0, tenantId |-> 0]

\* ------------------------------------------------------ results, errors
NoResult == [st |-> "none", val |-> 0, msg |-> "", status |-> 0]
Ok(v) == [st |-> "ok", val |-> v, msg |-> "", status |-> 0]
Err(m, s) == [st |-> "err", val |-> 0, msg |-> m, status |-> s]

AxonError(s) == Err("AxonError", s)
PlainError == Err("Network error", 0)
\* a thrown value that is no Error instance
ThrownValue == Err("thrown value", 0)
\* the message lists the missing fields: clientId (1), clientSecret (2),
\* tenantId (4), kept as their sum
MissingCredentials(a) ==
  Err("Missing required credentials",
      (IF a.clientId = 0 THEN 1 ELSE 0) + (IF a.clientSecret = 0 THEN 2 ELSE 0)
        + (IF a.tenantId = 0 THEN 4 ELSE 0))
NoRefreshToken == Err("No refresh token available", 0)
RefreshFailed == Err("Failed to refresh access token", 0)
ForgeFailed == Err("Failed to forge refresh token", 0)
ProviderFailed == Err("Provider failed", 0)
CannotRecover == Err("Authentication failed and no token provider configured", 0)
AccessTokenInvalid == Err("Access token is invalid or expired", 0)

Statuses == {401, 403, 404, 409, 500, 418}

VARIABLES
  auth,        \* the AzureAuth instance: its private fields
  disk,        \* storage directory: path -> stored record
  writeFailed, \* number of saves that failed
  now,         \* Date.now()
  kind,        \* per caller: which public method it called
  pc,          \* per caller: where its flow of control is suspended
  io,          \* per caller: the I/O operation its flow (or its promise) awaits
  rv,          \* per caller: value its pending await resumes with
  result,      \* per caller: how its call settled
  promise,     \* per caller: state of the promise it created and shared
  waiters,     \* per promise owner: flows awaiting it, in registration order
  mq,          \* microtask queue: flows ready to resume, FIFO
  wbuf,        \* per caller: record and path of its pending file write
  cfg,         \* the configuration the instance was constructed with
  disk0,       \* storage content at construction
  born,        \* per caller: epoch in which the call was issued
  epoch,       \* 0 until the first I/O completion
  nextTok,     \* next token value the authorization server issues
  granted,     \* refresh_token of the latest successful refresh response, 0 if none
  loadCalls, providerCalls, codeExchanges, refreshCalls,
  sentRT,      \* refresh token sent by the latest refresh exchange
  opCalls,     \* per caller: executions of the wrapped operation
  opLog,       \* per caller: how each execution of the operation settled
  recoveries,  \* per caller: invalidateAndRefresh runs
  evs,         \* per caller: kinds of steps its call has started
  atCall,      \* per caller: instance state observed when the call was issued
  dir,         \* the storage directory as fs.readdir sees it
  listed,      \* what listStoredCredentials() returned, once called
  cleared,     \* how clearStoredCredentials() settled, once called
  saves,       \* which file each save of an instance went to, in order
  globalInstance, \* AzureAuth.globalInstance
  facade,      \* Azure._outlook, _calendar, _teams, _sharePoint
  built,       \* the instances constructed so far, in order
  accessLog,   \* what each access to a service getter of Azure returned
  configCalls  \* the Azure.config() and Azure.reset() calls so far

vars == <<auth, disk, writeFailed, now, kind, pc, io, rv, result, promise, waiters, mq,
          wbuf, cfg, disk0, born, epoch, nextTok, granted, loadCalls, providerCalls,
          codeExchanges, refreshCalls, sentRT, opCalls, opLog, recoveries,
          evs, atCall, dir, listed, cleared, saves, globalInstance, facade,
          built, accessLog, configCalls>>

\* the state outside one AzureAuth instance and its calls
statics ==
  <<dir, listed, cleared, saves, globalInstance, facade, built, accessLog,
    configCalls>>

\* the storage directory and the static methods working on it
stores == <<dir, listed, cleared, saves>>

\* the process-wide configuration and the Azure facade
shared == <<globalInstance, facade, built, accessLog, configCalls>>

\* one AzureAuth instance, its calls and its token file
calls ==
  <<auth, disk, writeFailed, now, kind, pc, io, rv, result, promise, waiters,
    mq, wbuf, cfg, disk0, born, epoch, nextTok, granted, loadCalls, providerCalls,
    codeExchanges, refreshCalls, sentRT, opCalls, opLog, recoveries, evs,
    atCall>>

\* ------------------------------------------------------------ construction
\* a field of an AzureConfig, every field being optional
Has(config, field) == field \in DOMAIN config /\ config[field] # Undefined

Fresh ==
  [expiredAt |-> Undefined, refreshToken |-> 0, accessToken |-> 0,
   tokenRefreshPromise |-> 0, storageLoadPromise |-> 0,
   tokenProvider |-> FALSE, storagePath |-> LegacyPath,
   clientId |-> 0, clientSecret |-> 0, tenantId |-> 0,
   isAccessTokenOnly |-> FALSE, scopes |-> DEFAULT_SCOPES,
   scopesConfigured |-> FALSE, allowInsecure |-> FALSE, isRetrying |-> FALSE]

getDefaultStoragePath(a) ==
  IF a.tenantId # 0 /\ a.clientId # 0
    THEN <<a.tenantId, a.clientId>>
    ELSE LegacyPath

updateStoragePath(a) == [a EXCEPT !.storagePath = getDefaultStoragePath(a)]

copyFrom(a, other) ==
  [a EXCEPT !.accessToken = other.accessToken,
            !.refreshToken = other.refreshToken,
            !.expiredAt = other.expiredAt,
            !.clientId = other.clientId,
            !.clientSecret = other.clientSecret,
            !.tenantId = other.tenantId,
            !.isAccessTokenOnly = other.isAccessTokenOnly,
            !.scopes = other.scopes,
            !.scopesConfigured = other.scopesConfigured,
            !.tokenProvider = other.tokenProvider,
            !.allowInsecure = other.allowInsecure]

\* new AzureAuth(other): the fields of another instance, and the storage
\* path of the copied tenant and client
constructor_copy(other) == updateStoragePath(copyFrom(Fresh, other))

\* applyConfig without the scopesConfigured test
applyConfig_rescoped(a, config) ==
  updateStoragePath(
    [a EXCEPT
      !.accessToken = IF config.accessToken # 0 THEN config.accessToken ELSE @,
      !.isAccessTokenOnly = IF config.accessToken # 0 THEN TRUE ELSE @,
      !.refreshToken = IF config.refreshToken # 0 THEN config.refreshToken ELSE @,
      !.tokenProvider = IF config.tokenProvider THEN TRUE ELSE @,
      !.clientId = IF config.clientId # 0 THEN config.clientId ELSE @,
      !.clientSecret = IF config.clientSecret # 0 THEN config.clientSecret ELSE @,
      !.tenantId = IF config.tenantId # 0 THEN config.tenantId ELSE @,
      !.scopes = IF Has(config, "scopes") THEN config.scopes ELSE @,
      !.scopesConfigured = IF Has(config, "scopes") THEN TRUE ELSE @,
      !.allowInsecure = IF Has(config, "allowInsecure")
                          THEN config.allowInsecure ELSE @])

applyConfig(a, config) ==
  updateStoragePath(
    [a EXCEPT
      !.accessToken = IF config.accessToken # 0 THEN config.accessToken ELSE @,
      !.isAccessTokenOnly = IF config.accessToken # 0 THEN TRUE ELSE @,
      !.refreshToken = IF config.refreshToken # 0 THEN config.refreshToken ELSE @,
      !.tokenProvider = IF config.tokenProvider THEN TRUE ELSE @,
      !.clientId = IF config.clientId # 0 THEN config.clientId ELSE @,
      !.clientSecret = IF config.clientSecret # 0 THEN config.clientSecret ELSE @,
      !.tenantId = IF config.tenantId # 0 THEN config.tenantId ELSE @,
      !.scopes = IF Has(config, "scopes") /\ ~a.scopesConfigured
                   THEN config.scopes ELSE @,
      !.scopesConfigured = IF Has(config, "scopes") THEN TRUE ELSE @,
      !.allowInsecure = IF Has(config, "allowInsecure")
                          THEN config.allowInsecure ELSE @])

\* ------------------------------------- process-wide configuration
\* the optional argument of new AzureAuth(config?), of a service
\* constructor and of the calls of Azure
NoConfig ==
  [given |-> FALSE,
   config |-> [accessToken |-> 0, refreshToken |-> 0, tokenProvider |-> FALSE,
               clientId |-> 0, clientSecret |-> 0, tenantId |-> 0]]

Explicit(config) == [given |-> TRUE, config |-> config]

\* AzureAuth.globalInstance = null
NoInstance == [set |-> FALSE, inst |-> Fresh]

\* loadCredentials: the explicit configuration, else the process-wide one
loadCredentials(a, arg, global) ==
  IF arg.given THEN applyConfig(a, arg.config)
  ELSE IF global.set THEN copyFrom(a, global.inst)
  ELSE a

\* new AzureAuth(config?) with a configuration or with nothing
constructor(arg, global) == loadCredentials(updateStoragePath(Fresh), arg, global)

setGlobalConfig(config, global) ==
  [set |-> TRUE, inst |-> constructor(Explicit(config), global)]

Services == {"outlook", "calendar", "teams", "sharePoint"}

\* no service instance is cached
NoServices == [s \in Services |-> 0]

\* Azure.config() leaving the cached service instances in place
Azure_config_cached(f) == f

\* what Azure.config() and Azure.reset() make of the cached instances
Azure_config(f) == NoServices

NothingShared ==
  /\ globalInstance = NoInstance /\ facade = NoServices /\ built = <<>>
  /\ accessLog = <<>> /\ configCalls = <<>>

\* ------------------------------------------------- effects of one step
\* A step is one run-to-completion piece of a flow: it ends by starting an
\* I/O operation ("io"), by awaiting a shared promise ("wait"), by awaiting
\* an already settled value, which resumes it one microtask later ("tick"),
\* or by settling the caller's call ("done").
NoWrite == [path |-> LegacyPath, rec |-> NoFile]

Eff(a, p, act) ==
  [a |-> a, pc |-> p, act |-> act, on |-> 0, res |-> NoResult,
   io |-> "none", ev |-> {}, own |-> FALSE, wb |-> NoWrite]

Resolved(a, p) == Eff(a, p, "tick")
Done(a, r) == [Eff(a, "done", "done") EXCEPT !.res = r]
Await(a, p, o) == [Eff(a, p, "wait") EXCEPT !.on = o]
StartIO(a, p, op) == [Eff(a, p, "io") EXCEPT !.io = op, !.ev = {op}]
Shared(e) == [e EXCEPT !.own = TRUE]
Also(e, s) == [e EXCEPT !.ev = @ \cup s]

\* ------------------------------------------------------- saveToStorage
\* variant: the record written carries the client secret
saveToStorage_withSecret(a, p) ==
  IF a.isAccessTokenOnly THEN Resolved(a, p)
  ELSE IF a.refreshToken = 0 THEN Resolved(a, p)
  ELSE [StartIO(a, p, "mkdir") EXCEPT
          !.wb = [path |-> a.storagePath,
                  rec |-> [exists |-> TRUE, wellFormed |-> TRUE,
                           refreshToken |-> a.refreshToken,
                           accessToken |-> a.accessToken,
                           expiresAt |-> a.expiredAt,
                           clientId |-> a.clientId,
                           tenantId |-> a.tenantId,
                           clientSecret |-> a.clientSecret]]]

\* variant: the record is written whatever the instance holds
saveToStorage_always(a, p) ==
  [StartIO(a, p, "mkdir") EXCEPT
     !.wb = [path |-> a.storagePath,
             rec |-> [exists |-> TRUE, wellFormed |-> TRUE,
                      refreshToken |-> a.refreshToken,
                      accessToken |-> a.accessToken,
                      expiresAt |-> a.expiredAt,
                      clientId |-> a.clientId,
                      tenantId |-> a.tenantId]]]

saveToStorage(a, p) ==
  IF a.isAccessTokenOnly THEN Resolved(a, p)
  ELSE IF a.refreshToken = 0 THEN Resolved(a, p)
  ELSE [StartIO(a, p, "mkdir") EXCEPT
          !.wb = [path |-> a.storagePath,
                  rec |-> [exists |-> TRUE, wellFormed |-> TRUE,
                           refreshToken |-> a.refreshToken,
                           accessToken |-> a.accessToken,
                           expiresAt |-> a.expiredAt,
                           clientId |-> a.clientId,
                           tenantId |-> a.tenantId]]]

\* ------------------------------------------------------------ JSON text
\* JSON.stringify leaves out a key whose value is undefined
JSON_stringify(credentials) ==
  [credentials EXCEPT !.expiresAt = IF @ = Undefined THEN Absent ELSE @]

\* variant: a key the text leaves out is not read back as undefined
JSON_parse_asWritten(data) == data

\* reading a key the text does not hold gives undefined
JSON_parse(data) ==
  [data EXCEPT !.expiresAt = IF @ = Absent THEN Undefined ELSE @]

\* a file whose text is not JSON: JSON.parse throws on it, no key can be read
Malformed ==
  [exists |-> TRUE, wellFormed |-> FALSE, refreshToken |-> Undefined,
   accessToken |-> Undefined, expiresAt |-> Undefined, clientId |-> Undefined,
   tenantId |-> Undefined]

\* ------------------------------------------------------ loadFromStorage
\* variant: the text of the file is used whether or not it parses
loadFromStorage_unparsed(a, rec) ==
  IF rec.exists
    THEN [a |-> updateStoragePath(
                  [a EXCEPT !.refreshToken = rec.refreshToken,
                            !.accessToken = rec.accessToken,
                            !.expiredAt = rec.expiresAt,
                            !.clientId = rec.clientId,
                            !.tenantId = rec.tenantId]),
          found |-> TRUE]
    ELSE [a |-> a, found |-> FALSE]

\* rec is what fs.readFile found at the path it was called with; a missing
\* file makes readFile throw and a malformed one makes JSON.parse throw, which
\* the catch block turns into "false". The value is the instance afterwards
\* and the boolean returned.
loadFromStorage(a, rec) ==
  IF rec.exists /\ rec.wellFormed
    THEN LET credentials == JSON_parse(rec) IN
         [a |-> updateStoragePath(
                  [a EXCEPT !.refreshToken = credentials.refreshToken,
                            !.accessToken = credentials.accessToken,
                            !.expiredAt = credentials.expiresAt,
                            !.clientId = credentials.clientId,
                            !.tenantId = credentials.tenantId]),
          found |-> TRUE]
    ELSE [a |-> a, found |-> FALSE]

\* --------------------------------------------------- ensureRefreshToken
ensureRefreshToken_provider(a, c) ==
  IF a.tokenProvider
    THEN Shared(StartIO([a EXCEPT !.storageLoadPromise = c], "ert_own2", "provider"))
    ELSE Done(a, NoRefreshToken)

\* variant: the provider is asked without a storage load
ensureRefreshToken_load_skipped(a, c) == ensureRefreshToken_provider(a, c)

ensureRefreshToken_load(a, c) ==
  [Shared(StartIO([a EXCEPT !.storageLoadPromise = c], "ert_own1", "readFile"))
     EXCEPT !.wb = [path |-> a.storagePath, rec |-> NoFile]]

ensureRefreshToken_428(a, c) ==
  IF a.refreshToken # 0 THEN Resolved(a, "chk_505")
  ELSE IF a.storageLoadPromise # 0
    THEN Await(a, "ert_w2", a.storageLoadPromise)
    ELSE ensureRefreshToken_load(a, c)

\* variant: an in-flight load or provider call is not awaited
ensureRefreshToken_unguarded(a, c) ==
  IF a.refreshToken # 0 THEN Resolved(a, "chk_505")
  ELSE ensureRefreshToken_load(a, c)

ensureRefreshToken(a, c) ==
  IF a.storageLoadPromise # 0
    THEN Await(a, "ert_w1", a.storageLoadPromise)
    ELSE ensureRefreshToken_428(a, c)

ensureRefreshToken_w1(a, c, r) ==
  IF r.st = "err" THEN Done(a, r)
  ELSE IF a.refreshToken # 0 THEN Resolved(a, "chk_505")
  ELSE ensureRefreshToken_428(a, c)

\* variant: the rejection of the awaited promise is not propagated
ensureRefreshToken_w2_caught(a, c, r) ==
  IF a.refreshToken # 0 THEN Resolved(a, "chk_505")
  ELSE ensureRefreshToken_load(a, c)

ensureRefreshToken_w2(a, c, r) ==
  IF r.st = "err" THEN Done(a, r)
  ELSE IF a.refreshToken # 0 THEN Resolved(a, "chk_505")
  ELSE ensureRefreshToken_load(a, c)

ensureRefreshToken_w3(a, c, r) ==
  IF r.st = "err" THEN Done(a, r)
  ELSE IF a.refreshToken # 0 THEN Resolved(a, "chk_505")
  ELSE ensureRefreshToken_provider(a, c)

ensureRefreshToken_own1(a, c, r) ==
  LET a1 == [a EXCEPT !.storageLoadPromise = 0] IN
  IF r.st = "err" THEN Done(a1, r)
  ELSE IF a1.refreshToken # 0 THEN Resolved(a1, "chk_505")
  ELSE IF a1.storageLoadPromise # 0
    THEN Await(a1, "ert_w3", a1.storageLoadPromise)
    ELSE ensureRefreshToken_provider(a1, c)

ensureRefreshToken_own2(a, c, r) ==
  LET a1 == [a EXCEPT !.storageLoadPromise = 0] IN
  IF r.st = "err" THEN Done(a1, r) ELSE Resolved(a1, "chk_505")

\* ----------------------------------------------------------- checkToken
ensureCredentials(a) ==
  a.clientId # 0 /\ a.clientSecret # 0 /\ a.tenantId # 0

checkToken_512(a, c, t) ==
  IF Truthy(a.expiredAt) /\ t >= a.expiredAt
    THEN Shared(StartIO([a EXCEPT !.tokenRefreshPromise = c], "chk_own", "refreshPost"))
    ELSE Resolved(a, "get_ret")

checkToken_505(a, c, t) ==
  IF a.tokenRefreshPromise # 0
    THEN Await(a, "chk_w", a.tokenRefreshPromise)
    ELSE checkToken_512(a, c, t)

checkToken_w(a, c, r, t) ==
  IF r.st = "err" THEN Done(a, r)
  ELSE IF a.refreshToken # 0 /\ Truthy(a.expiredAt) /\ t < a.expiredAt
    THEN Resolved(a, "get_ret")
    ELSE checkToken_512(a, c, t)

checkToken_own(a, c, r) ==
  IF r.st = "err" THEN Done([a EXCEPT !.tokenRefreshPromise = 0], r)
  ELSE saveToStorage(a, "chk_save")

checkToken_saved(a, c) ==
  Resolved([a EXCEPT !.tokenRefreshPromise = 0], "get_ret")

\* variant: the credentials are not looked at
checkToken_unchecked(a, c) ==
  IF a.isAccessTokenOnly THEN Resolved(a, "get_ret")
  ELSE Also(ensureRefreshToken(updateStoragePath(a), c), {"creds"})

checkToken(a, c) ==
  IF a.isAccessTokenOnly THEN Resolved(a, "get_ret")
  ELSE IF ~ensureCredentials(updateStoragePath(a))
    THEN Also(Done(updateStoragePath(a), MissingCredentials(updateStoragePath(a))),
              {"creds"})
    ELSE Also(ensureRefreshToken(updateStoragePath(a), c), {"creds"})

\* variant: the call yields again instead of returning the token
getAccessToken_again(a, c) == Resolved(a, "get_ret")

getAccessToken(a, c) == Done(a, Ok(a.accessToken))

\* ------------------------------------------- token endpoint responses
refreshAccessToken(a, resp, t) ==
  [a EXCEPT !.accessToken = resp.at,
            !.expiredAt = IF resp.exp THEN t + ExpiresIn ELSE @,
            !.refreshToken = IF resp.rt # 0 THEN resp.rt ELSE @]

\* what leaves the try block of refreshAccessToken when the exchange fails:
\* the error thrown for a response whose status is not 200 (responded), or
\* what post() threw: an AxonError, or a transport error
refreshAccessToken_thrown(responded, axon) ==
  IF responded THEN RefreshFailed
  ELSE IF axon THEN AxonError(400) ELSE PlainError

\* variant: what was thrown is thrown on
refreshAccessToken_rethrow(error) == error

\* the catch block throws a new error
refreshAccessToken_catch(error) == RefreshFailed

forgeRefreshToken(a, resp, t) ==
  [a EXCEPT !.accessToken = resp.at,
            !.expiredAt = t + ExpiresIn,
            !.refreshToken = resp.rt]

\* ------------------------------------------------------------ withRetry
enhanceError(r) ==
  IF r.msg = "AxonError" /\ r.status = 401 THEN Err("Authentication failed", 0)
  ELSE IF r.msg = "AxonError" /\ r.status = 404 THEN Err("Resource not found", 0)
  ELSE IF r.msg = "AxonError" /\ r.status = 409 THEN Err("Conflict", 0)
  ELSE IF r.msg = "AxonError" /\ r.status = 403 THEN Err("Permission denied", 0)
  ELSE IF r.msg = "AxonError" /\ r.status >= 500
    THEN Err("Microsoft server error", r.status)
  ELSE IF r = ThrownValue THEN Err("Unknown error", 0)
  ELSE r

\* variant: the guard is left as it is
withRetry_finally_kept(a, r) == Done(a, r)

withRetry_finally(a, r) == Done([a EXCEPT !.isRetrying = FALSE], r)

\* variant: the operation is not executed again after the recovery
withRetry_retry_skipped(a, c) == withRetry_finally(a, Ok(0))

withRetry_retry(a, c) == StartIO(a, "op2", "operation")

invalidateAndRefresh_provider(a, c) ==
  IF a.tokenProvider
    THEN StartIO(a, "rec_forge", "provider")
    ELSE withRetry_finally(a, CannotRecover)

\* variant: the provider is asked before the refresh token is tried
invalidateAndRefresh_providerFirst(a, c) ==
  invalidateAndRefresh_provider([a EXCEPT !.accessToken = 0, !.expiredAt = 0], c)

invalidateAndRefresh(a, c) ==
  LET a1 == [a EXCEPT !.accessToken = 0, !.expiredAt = 0] IN
  IF a1.refreshToken # 0
    THEN StartIO(a1, "rec_refresh", "refreshPost")
    ELSE invalidateAndRefresh_provider(a1, c)

\* variant: every failure starts the recovery
withRetry_catch_any(a, c, r) ==
  Also(invalidateAndRefresh([a EXCEPT !.isRetrying = TRUE], c), {"recover"})

\* variant: a 401 starts the recovery whether or not one is in progress
withRetry_catch_unguarded(a, c, r) ==
  IF r.msg = "AxonError" /\ r.status = 401
    THEN Also(invalidateAndRefresh([a EXCEPT !.isRetrying = TRUE], c), {"recover"})
    ELSE Done(a, enhanceError(r))

withRetry_catch(a, c, r) ==
  IF r.msg = "AxonError" /\ r.status = 401 /\ ~a.isRetrying
    THEN Also(invalidateAndRefresh([a EXCEPT !.isRetrying = TRUE], c), {"recover"})
    ELSE Done(a, enhanceError(r))

withRetry_first(a, c, r) ==
  IF r.st = "ok" THEN Done(a, r) ELSE withRetry_catch(a, c, r)

\* variant: a failure of the retry is handled as the first failure is
withRetry_retried_again(a, c, r) ==
  withRetry_first([a EXCEPT !.isRetrying = FALSE], c, r)

withRetry_retried(a, c, r) == withRetry_finally(a, r)

withRetry(a, c) == StartIO(a, "op1", "operation")

handleApiError(a, r) ==
  IF a.isAccessTokenOnly /\ r.status = 401 THEN AccessTokenInvalid ELSE r

\* ------------------------------------------------ listStoredCredentials
\* a file name is a sequence of pieces of text: "." is the dot, every other
\* piece is a run of characters without a dot
Dot == "."
Pieces == {"tokens", "json", "t", "c", Dot}

startsWith(f, prefix) ==
  Len(f) >= Len(prefix) /\ SubSeq(f, 1, Len(prefix)) = prefix

endsWith(f, suffix) ==
  Len(f) >= Len(suffix)
    /\ SubSeq(f, Len(f) - Len(suffix) + 1, Len(f)) = suffix

\* String.prototype.split("."): the text between the dots, empty runs kept
RECURSIVE split(_)
split(f) ==
  IF \A i \in 1..Len(f) : f[i] # Dot THEN <<f>>
  ELSE LET i == CHOOSE j \in 1..Len(f) :
                  f[j] = Dot /\ \A k \in 1..(j - 1) : f[k] # Dot
       IN <<SubSeq(f, 1, i - 1)>> \o split(SubSeq(f, i + 1, Len(f)))

\* the filter callback narrowed to the two names getDefaultStoragePath
\* produces
isTokenFile_exact(f) ==
  /\ startsWith(f, <<"tokens">>) /\ endsWith(f, <<Dot, "json">>)
  /\ Len(split(f)) \in {2, 4} /\ split(f)[1] = <<"tokens">>

\* the filter callback of line 657
isTokenFile(f) ==
  startsWith(f, <<"tokens">>) /\ endsWith(f, <<Dot, "json">>)

\* the map callback of lines 658-668
credentialEntry(file) ==
  LET parts == split(file)
  IN IF Len(parts) = 4 /\ parts[1] = <<"tokens">>
       THEN [tenantId |-> parts[2], clientId |-> parts[3], file |-> file]
       ELSE [file |-> file]

NoDirectory == [exists |-> FALSE, files |-> <<>>]

listStoredCredentials(d) ==
  IF ~d.exists THEN <<>>
  ELSE LET kept == SelectSeq(d.files, isTokenFile)
       IN [i \in 1..Len(kept) |-> credentialEntry(kept[i])]

NotListed == [done |-> FALSE, entries |-> <<>>]

\* --------------------------------------------- clearStoredCredentials
Range(q) == {q[i] : i \in 1..Len(q)}

\* the template literal `tokens.${tenantId}.${clientId}.json`
tokenFileName(tenantId, clientId) ==
  <<"tokens", Dot>> \o tenantId \o <<Dot>> \o clientId \o <<Dot, "json">>

\* the file name getDefaultStoragePath resolves, on identifiers as text
storageFileName(tenantId, clientId) ==
  IF tenantId # <<>> /\ clientId # <<>>
    THEN tokenFileName(tenantId, clientId)
    ELSE <<"tokens", Dot, "json">>

Without(files, gone) == SelectSeq(files, LAMBDA f : f \notin gone)

\* the directory clearStoredCredentials leaves behind; fs.unlink fails for
\* the files of denied with an error other than ENOENT. Every error is
\* caught in lines 705-709, so the call resolves whatever happens.
clearStoredCredentials_all(d, tenantId, clientId, denied) ==
  IF ~d.exists THEN d
  ELSE [d EXCEPT !.files =
          Without(@, {f \in Range(@) : isTokenFile(f)} \ denied)]

clearStoredCredentials(d, tenantId, clientId, denied) ==
  IF ~d.exists THEN d
  ELSE IF tenantId # <<>> /\ clientId # <<>>
    THEN [d EXCEPT !.files =
            Without(@, {tokenFileName(tenantId, clientId)} \ denied)]
    ELSE [d EXCEPT !.files =
            Without(@, {f \in Range(@) : isTokenFile(f)} \ denied)]

NotCleared ==
  [done |-> FALSE, raised |-> FALSE, tenantId |-> <<>>, clientId |-> <<>>,
   denied |-> {}, before |-> NoDirectory]

\* ------------------------------------------------ committing one step
Pending == [st |-> "pending", val |-> 0, msg |-> "", status |-> 0]

Bump(n, name, e) == IF name \in e.ev THEN n + 1 ELSE n

\* the flow of caller c ran the step with effect e; q is the microtask
\* queue the step leaves behind it
Commit(c, e, q) ==
  LET settled == e.act = "wait" /\ promise[e.on].st # "pending" IN
  /\ auth' = e.a
  /\ pc' = [pc EXCEPT ![c] = e.pc]
  /\ io' = [io EXCEPT ![c] = e.io]
  /\ result' = [result EXCEPT ![c] = e.res]
  /\ wbuf' = [wbuf EXCEPT ![c] = e.wb]
  /\ promise' = IF e.own THEN [promise EXCEPT ![c] = Pending] ELSE promise
  /\ waiters' = IF e.own THEN [waiters EXCEPT ![c] = <<c>>]
                ELSE IF e.act = "wait" /\ ~settled
                  THEN [waiters EXCEPT ![e.on] = Append(@, c)]
                ELSE waiters
  /\ mq' = IF e.act = "tick" \/ settled THEN Append(q, c) ELSE q
  /\ rv' = IF e.act = "tick" THEN [rv EXCEPT ![c] = Ok(0)]
           ELSE IF settled THEN [rv EXCEPT ![c] = promise[e.on]]
           ELSE rv
  /\ loadCalls' = Bump(loadCalls, "readFile", e)
  /\ providerCalls' = Bump(providerCalls, "provider", e)
  /\ codeExchanges' = Bump(codeExchanges, "codePost", e)
  /\ refreshCalls' = Bump(refreshCalls, "refreshPost", e)
  /\ sentRT' = IF "refreshPost" \in e.ev THEN e.a.refreshToken ELSE sentRT
  /\ opCalls' = [opCalls EXCEPT ![c] = Bump(@, "operation", e)]
  /\ recoveries' = [recoveries EXCEPT ![c] = Bump(@, "recover", e)]
  /\ evs' = [evs EXCEPT ![c] = @ \cup e.ev]

\* the promise created by caller c settles with r, leaving the instance as a:
\* every flow awaiting it becomes runnable, in registration order
Settle(c, a, r) ==
  /\ auth' = a
  /\ promise' = [promise EXCEPT ![c] = r]
  /\ mq' = mq \o waiters[c]
  /\ rv' = [w \in Callers |-> IF w \in Range(waiters[c]) THEN r ELSE rv[w]]
  /\ waiters' = [waiters EXCEPT ![c] = <<>>]
  /\ io' = [io EXCEPT ![c] = "none"]
  /\ wbuf' = [wbuf EXCEPT ![c] = NoWrite]
  /\ UNCHANGED <<pc, result, loadCalls, providerCalls, codeExchanges,
                 refreshCalls, sentRT, opCalls, recoveries, evs>>

\* caller identifiers are handed out in order: the next call gets the least
\* unused one
Unused(c) == kind[c] = "idle" /\ \A d \in Callers : d < c => kind[d] # "idle"

Snapshot(r) ==
  [accessToken |-> auth.accessToken, refreshToken |-> auth.refreshToken,
   expired |-> (auth.expiredAt > 0 /\ now >= auth.expiredAt),
   expiredAt |-> auth.expiredAt,
   nextTok |-> nextTok, error |-> r]

NoSnapshot ==
  [accessToken |-> 0, refreshToken |-> 0, expired |-> FALSE,
   expiredAt |-> Undefined, nextTok |-> 0, error |-> NoResult]

\* ------------------------------------------------------------- calls
\* a caller invokes getAccessToken(): runs to the first suspension
GetAccessToken(c) ==
  /\ Unused(c)
  /\ kind' = [kind EXCEPT ![c] = "get"]
  /\ born' = [born EXCEPT ![c] = epoch]
  /\ atCall' = [atCall EXCEPT ![c] = Snapshot(NoResult)]
  /\ Commit(c, checkToken(auth, c), mq)
  /\ UNCHANGED <<disk, writeFailed, now, statics, cfg, disk0, epoch, nextTok, granted, opLog>>

\* a caller invokes withRetry(operation): the operation is started
WithRetry(c) ==
  /\ Unused(c)
  /\ kind' = [kind EXCEPT ![c] = "retry"]
  /\ born' = [born EXCEPT ![c] = epoch]
  /\ atCall' = [atCall EXCEPT ![c] = Snapshot(NoResult)]
  /\ Commit(c, withRetry(auth, c), mq)
  /\ UNCHANGED <<disk, writeFailed, now, statics, cfg, disk0, epoch, nextTok, granted, opLog>>

\* a service's catch block hands the error of its request to handleApiError
HandleApiError(c, r) ==
  /\ Unused(c)
  /\ kind' = [kind EXCEPT ![c] = "api"]
  /\ born' = [born EXCEPT ![c] = epoch]
  /\ atCall' = [atCall EXCEPT ![c] = Snapshot(r)]
  /\ Commit(c, Done(auth, handleApiError(auth, r)), mq)
  /\ UNCHANGED <<disk, writeFailed, now, statics, cfg, disk0, epoch, nextTok, granted, opLog>>

\* ------------------------------------------------- resuming a flow
Resume(c) ==
  CASE pc[c] = "ert_w1" -> ensureRefreshToken_w1(auth, c, rv[c])
    [] pc[c] = "ert_w2" -> ensureRefreshToken_w2(auth, c, rv[c])
    [] pc[c] = "ert_w3" -> ensureRefreshToken_w3(auth, c, rv[c])
    [] pc[c] = "ert_own1" -> ensureRefreshToken_own1(auth, c, rv[c])
    [] pc[c] = "ert_own2" -> ensureRefreshToken_own2(auth, c, rv[c])
    [] pc[c] = "chk_505" -> checkToken_505(auth, c, now)
    [] pc[c] = "chk_w" -> checkToken_w(auth, c, rv[c], now)
    [] pc[c] = "chk_own" -> checkToken_own(auth, c, rv[c])
    [] pc[c] = "chk_save" -> checkToken_saved(auth, c)
    [] pc[c] = "get_ret" -> getAccessToken(auth, c)
    [] pc[c] = "rec_forge" -> withRetry_retry(auth, c)

\* the event loop runs the oldest microtask
Microtask ==
  /\ mq # <<>>
  /\ Commit(Head(mq), Resume(Head(mq)), Tail(mq))
  /\ UNCHANGED <<disk, writeFailed, now, statics, kind, cfg, disk0, born, epoch, nextTok, granted, atCall,
                 opLog>>

\* ------------------------------------------------- I/O completions
\* how the promise of saveToStorage settles once fs.mkdir / fs.writeFile
\* returned (ok) or threw: the catch block logs the error
saveToStorage_catch(ok) == Ok(0)

\* the continuation after saveToStorage settled with r, by the place that
\* called it
AfterSave(c, a, r) ==
  IF r.st = "err"
    THEN IF pc[c] = "chk_save" THEN Done([a EXCEPT !.tokenRefreshPromise = 0], r)
         ELSE withRetry_finally(a, r)
  ELSE IF pc[c] = "chk_save" THEN checkToken_saved(a, c)
  ELSE withRetry_retry(a, c)

\* the try block of saveToStorage is left, normally (ok) or by an error
SaveSettled(c, ok) ==
  LET r == saveToStorage_catch(ok) IN
  /\ writeFailed' = IF ok THEN writeFailed ELSE writeFailed + 1
  /\ IF pc[c] = "ert_own2" THEN Settle(c, auth, r)
     ELSE Commit(c, Also(AfterSave(c, auth, r),
                         IF ok THEN {} ELSE {"saveFailed"}), mq)

IOFrame == UNCHANGED <<now, kind, cfg, disk0, born, atCall, opLog, statics>>

ReadFileDone(c) ==
  /\ mq = <<>> /\ io[c] = "readFile"
  /\ Settle(c, loadFromStorage(auth, disk[wbuf[c].path]).a, Ok(0))
  /\ epoch' = 1
  /\ UNCHANGED <<disk, writeFailed, nextTok, granted>> /\ IOFrame

\* the tokenProvider returns the authorization code, or throws
ProviderDone(c, ok) ==
  /\ mq = <<>> /\ io[c] = "provider"
  /\ IF ok THEN Commit(c, StartIO(auth, pc[c], "codePost"), mq)
     ELSE IF pc[c] = "ert_own2" THEN Settle(c, auth, ProviderFailed)
     ELSE Commit(c, withRetry_finally(auth, ProviderFailed), mq)
  /\ epoch' = 1
  /\ UNCHANGED <<disk, writeFailed, nextTok, granted>> /\ IOFrame

\* the token endpoint answers the authorization_code grant
CodePostDone(c, ok) ==
  /\ mq = <<>> /\ io[c] = "codePost"
  /\ IF ok
       THEN LET a == forgeRefreshToken(auth, [at |-> nextTok, rt |-> nextTok + 1], now)
                e == saveToStorage(a, pc[c])
            IN /\ IF pc[c] = "ert_own2" /\ e.act = "tick"
                    THEN Settle(c, a, Ok(0))
                    ELSE Commit(c, e, mq)
               /\ nextTok' = nextTok + 2
       ELSE /\ IF pc[c] = "ert_own2" THEN Settle(c, auth, ForgeFailed)
               ELSE Commit(c, withRetry_finally(auth, ForgeFailed), mq)
            /\ UNCHANGED nextTok
  /\ epoch' = 1
  /\ UNCHANGED <<disk, writeFailed, granted>> /\ IOFrame

\* the token endpoint answers the refresh_token grant (ok: with status 200,
\* and withExp, withRT tell whether expires_in and refresh_token are in the
\* response), or the exchange fails (withExp: a response came, its status is
\* not 200; otherwise withRT: post() threw an AxonError)
RefreshPostDone(c, ok, withExp, withRT) ==
  /\ mq = <<>> /\ io[c] = "refreshPost"
  /\ IF ok
       THEN LET a == refreshAccessToken(auth,
                       [at |-> nextTok, exp |-> withExp,
                        rt |-> IF withRT THEN nextTok + 1 ELSE 0], now)
            IN /\ IF pc[c] = "chk_own" THEN Settle(c, a, Ok(0))
                  ELSE Commit(c, withRetry_retry(a, c), mq)
               /\ nextTok' = nextTok + 2
               /\ granted' = IF withRT THEN nextTok + 1 ELSE 0
       ELSE LET r == refreshAccessToken_catch(
                       refreshAccessToken_thrown(withExp, withRT)) IN
            /\ (withExp => withRT)
            /\ IF pc[c] = "chk_own" THEN Settle(c, auth, r)
               ELSE Commit(c, invalidateAndRefresh_provider(auth, c), mq)
            /\ UNCHANGED <<nextTok, granted>>
  /\ epoch' = 1
  /\ UNCHANGED <<disk, writeFailed>> /\ IOFrame

\* fs.mkdir of saveToStorage returns and fs.writeFile is issued, or it throws
MkdirDone(c, ok) ==
  /\ mq = <<>> /\ io[c] = "mkdir"
  /\ IF ok
       THEN /\ Commit(c, [StartIO(auth, pc[c], "writeFile") EXCEPT
                            !.wb = [wbuf[c] EXCEPT !.path = auth.storagePath]], mq)
            /\ UNCHANGED writeFailed
       ELSE SaveSettled(c, FALSE)
  /\ epoch' = 1
  /\ UNCHANGED <<disk, nextTok, granted>> /\ IOFrame

\* fs.writeFile of saveToStorage returns, or throws
WriteFileDone(c, ok) ==
  /\ mq = <<>> /\ io[c] = "writeFile"
  /\ disk' = IF ok THEN [disk EXCEPT ![wbuf[c].path] = JSON_stringify(wbuf[c].rec)]
              ELSE disk
  /\ SaveSettled(c, ok)
  /\ epoch' = 1
  /\ UNCHANGED <<nextTok, granted>> /\ IOFrame

\* the wrapped operation settles: it resolves (r = Ok) or throws r
OperationDone(c, r) ==
  /\ mq = <<>> /\ io[c] = "operation"
  /\ IF pc[c] = "op1"
       THEN Commit(c, withRetry_first(auth, c, r), mq)
       ELSE Commit(c, withRetry_retried(auth, c, r), mq)
  /\ opLog' = [opLog EXCEPT ![c] = Append(@, r)]
  /\ epoch' = 1
  /\ UNCHANGED <<disk, writeFailed, nextTok, granted, now, statics, kind, cfg, disk0, born, atCall>>

\* the clock advances
Tick ==
  /\ mq = <<>>
  /\ now < MaxNow
  /\ now' = now + 1
  /\ UNCHANGED <<statics, auth, disk, writeFailed, kind, pc, io, rv, result, promise, waiters, mq,
                 wbuf, cfg, disk0, born, epoch, nextTok, granted, loadCalls,
                 providerCalls, codeExchanges, refreshCalls, sentRT, opCalls,
                 opLog, recoveries, evs, atCall>>

\* a caller invokes the static listStoredCredentials() and fs.readdir
\* answers
ListStoredCredentials ==
  /\ ~listed.done
  /\ listed' = [done |-> TRUE, entries |-> listStoredCredentials(dir)]
  /\ UNCHANGED <<calls, dir, cleared, saves, shared>>

\* a caller invokes the static clearStoredCredentials(tenantId, clientId)
\* and the file system answers
ClearStoredCredentials(tenantId, clientId, denied) ==
  /\ ~cleared.done
  /\ dir' = clearStoredCredentials(dir, tenantId, clientId, denied)
  /\ cleared' = [done |-> TRUE, raised |-> FALSE, tenantId |-> tenantId,
                 clientId |-> clientId, denied |-> denied, before |-> dir]
  /\ UNCHANGED <<calls, listed, saves, shared>>

\* an instance configured with tenantId and clientId saves its credentials:
\* the file of storagePath is written
SaveFor(tenantId, clientId) ==
  /\ Len(saves) < MaxSaves
  /\ saves' = Append(saves, [tenantId |-> tenantId, clientId |-> clientId,
                             file |-> storageFileName(tenantId, clientId)])
  /\ UNCHANGED <<calls, dir, listed, cleared, shared>>

\* Azure.config(config)
AzureConfig(config) ==
  /\ Len(configCalls) < MaxConfigCalls
  /\ globalInstance' = setGlobalConfig(config, globalInstance)
  /\ facade' = Azure_config(facade)
  /\ configCalls' = Append(configCalls, Explicit(config))
  /\ UNCHANGED <<calls, stores, built, accessLog>>

\* Azure.reset()
AzureReset ==
  /\ Len(configCalls) < MaxConfigCalls
  /\ globalInstance' = NoInstance
  /\ facade' = Azure_config(facade)
  /\ configCalls' = Append(configCalls, NoConfig)
  /\ UNCHANGED <<calls, stores, built, accessLog>>

\* an access to Azure.outlook, .calendar, .teams or .sharePoint: the cached
\* instance, or a new service whose constructor builds new AzureAuth()
AccessService(s) ==
  /\ Len(accessLog) < MaxAccess
  /\ IF facade[s] = 0
       THEN /\ built' = Append(built,
                 [service |-> s, arg |-> NoConfig, global |-> globalInstance,
                  applied |-> <<>>,
                  auth |-> constructor(NoConfig, globalInstance)])
            /\ facade' = [facade EXCEPT ![s] = Len(built) + 1]
       ELSE UNCHANGED <<built, facade>>
  /\ accessLog' = Append(accessLog,
       [service |-> s, id |-> facade'[s], calls |-> Len(configCalls)])
  /\ UNCHANGED <<calls, stores, globalInstance, configCalls>>

\* new AzureAuth(config?) called by the application
Construct(arg) ==
  /\ Len(built) < MaxBuilt
  /\ built' = Append(built,
       [service |-> "AzureAuth", arg |-> arg, global |-> globalInstance,
        applied |-> IF arg.given THEN <<arg.config>> ELSE <<>>,
        auth |-> constructor(arg, globalInstance)])
  /\ UNCHANGED <<calls, stores, globalInstance, facade, accessLog, configCalls>>

\* applyConfig(config) runs once more on the instance built i-th
Reconfigure(i, config) ==
  /\ i \in 1..Len(built)
  /\ Len(built[i].applied) < MaxApplied
  /\ built' = [built EXCEPT ![i].auth = applyConfig(@, config),
                            ![i].applied = Append(@, config)]
  /\ UNCHANGED <<calls, stores, globalInstance, facade, accessLog, configCalls>>

\* ------------------------------------------------------ specification
OpValue == 7

OpResults == {Ok(OpValue), PlainError, ThrownValue} \cup {AxonError(s) : s \in Statuses}

Paths == {LegacyPath, <<1, 1>>}

Configs ==
  { [accessToken |-> at, refreshToken |-> rt, tokenProvider |-> tp,
     clientId |-> id, clientSecret |-> Secret, tenantId |-> id] :
      at \in {0, CfgAT}, rt \in {0, CfgRT}, tp \in BOOLEAN, id \in {1} }

\* expiry of the credentials an earlier instance saved
StoredExpiries == {MaxNow, Undefined}

StoredRecord(exp) ==
  [exists |-> TRUE, wellFormed |-> TRUE,
   refreshToken |-> StoredRT, accessToken |-> StoredAT,
   expiresAt |-> exp, clientId |-> 1, tenantId |-> 1]

Disks ==
  { [p \in Paths |-> IF p = <<1, 1>> THEN f ELSE NoFile] :
      f \in {NoFile} \cup {JSON_stringify(StoredRecord(e)) : e \in StoredExpiries} }

\* instances a new instance is copied from: constructed with credentials,
\* they have loaded the stored record
Others ==
  { loadFromStorage(applyConfig(Fresh, config),
                    JSON_stringify(StoredRecord(MaxNow))).a :
      config \in {g \in Configs : g.accessToken = 0 /\ g.refreshToken = 0} }

\* what the instance is given at construction, and the expiry it then holds
Given(a) ==
  [accessToken |-> IF a.isAccessTokenOnly THEN a.accessToken ELSE 0,
   refreshToken |-> a.refreshToken, tokenProvider |-> a.tokenProvider,
   clientId |-> a.clientId, clientSecret |-> a.clientSecret,
   tenantId |-> a.tenantId, expiredAt |-> a.expiredAt]

InitCalls(a, d) ==
  /\ cfg = Given(a)
  /\ auth = a
  /\ disk = d
  /\ writeFailed = 0
  /\ disk0 = d
  /\ now = 1
  /\ kind = [c \in Callers |-> "idle"]
  /\ pc = [c \in Callers |-> "idle"]
  /\ io = [c \in Callers |-> "none"]
  /\ rv = [c \in Callers |-> Ok(0)]
  /\ result = [c \in Callers |-> NoResult]
  /\ promise = [c \in Callers |-> NoResult]
  /\ waiters = [c \in Callers |-> <<>>]
  /\ mq = <<>>
  /\ wbuf = [c \in Callers |-> NoWrite]
  /\ born = [c \in Callers |-> 0]
  /\ epoch = 0
  /\ nextTok = FirstIssued /\ granted = 0
  /\ loadCalls = 0 /\ providerCalls = 0 /\ codeExchanges = 0
  /\ refreshCalls = 0 /\ sentRT = 0
  /\ opCalls = [c \in Callers |-> 0]
  /\ opLog = [c \in Callers |-> <<>>]
  /\ recoveries = [c \in Callers |-> 0]
  /\ evs = [c \in Callers |-> {}]
  /\ atCall = [c \in Callers |-> NoSnapshot]

InitWith(a, d) ==
  /\ InitCalls(a, d)
  /\ dir = NoDirectory /\ listed = NotListed /\ cleared = NotCleared /\ saves = <<>>
  /\ NothingShared

Init ==
  \/ \E config \in Configs, d \in Disks : InitWith(applyConfig(Fresh, config), d)
  \/ \E other \in Others, d \in Disks : InitWith(constructor_copy(other), d)

Next ==
  \/ \E c \in Mixed : GetAccessToken(c)
  \/ \E c \in Mixed : WithRetry(c)
  \/ \E c \in Mixed, r \in {AxonError(401), AxonError(403)} :
       HandleApiError(c, r)
  \/ Microtask
  \/ \E c \in Callers : ReadFileDone(c)
  \/ \E c \in Callers, ok \in BOOLEAN : ProviderDone(c, ok)
  \/ \E c \in Callers, ok \in BOOLEAN : CodePostDone(c, ok)
  \/ \E c \in Callers, ok \in BOOLEAN, e \in BOOLEAN, t \in BOOLEAN :
       RefreshPostDone(c, ok, e, t)
  \/ \E c \in Callers, ok \in BOOLEAN : MkdirDone(c, ok)
  \/ \E c \in Callers, ok \in BOOLEAN : WriteFileDone(c, ok)
  \/ \E c \in Callers, r \in OpResults : OperationDone(c, r)
  \/ Tick

Spec == Init /\ [][Next]_vars

\* only getAccessToken() callers, as many as NCallers
NextGet ==
  \/ \E c \in GetCallers : GetAccessToken(c)
  \/ Microtask
  \/ \E c \in Callers : ReadFileDone(c)
  \/ \E c \in Callers, ok \in BOOLEAN : ProviderDone(c, ok)
  \/ \E c \in Callers, ok \in BOOLEAN : CodePostDone(c, ok)
  \/ \E c \in Callers, ok \in BOOLEAN, e \in BOOLEAN, t \in BOOLEAN :
       RefreshPostDone(c, ok, e, t)
  \/ \E c \in Callers, ok \in BOOLEAN : MkdirDone(c, ok)
  \/ \E c \in Callers, ok \in BOOLEAN : WriteFileDone(c, ok)
  \/ Tick

SpecGet == Init /\ [][NextGet]_vars

\* storage directories without a readable token file: there is none, or the
\* one there is malformed
UnreadableDisks ==
  { [p \in Paths |-> IF p = <<1, 1>> THEN f ELSE NoFile] : f \in {NoFile, Malformed} }

\* an instance that holds no token, so that its calls load from storage
InitLoad ==
  \E config \in Configs, d \in UnreadableDisks :
    /\ config.accessToken = 0 /\ config.refreshToken = 0
    /\ InitWith(applyConfig(Fresh, config), d)

SpecLoad == InitLoad /\ [][NextGet]_vars

\* configurations that may lack any of clientId, clientSecret, tenantId
PartialConfigs ==
  { [accessToken |-> at, refreshToken |-> rt, tokenProvider |-> tp,
     clientId |-> ci, clientSecret |-> cs, tenantId |-> ti] :
      at \in {0, CfgAT}, rt \in {0, CfgRT}, tp \in BOOLEAN,
      ci \in {0, 1}, cs \in {0, Secret}, ti \in {0, 1} }

InitPartial ==
  \E config \in PartialConfigs, d \in Disks :
    InitWith(applyConfig(Fresh, config), d)

\* getAccessToken() callers, as many as MaxMixed, on any configuration
NextPartial ==
  \/ \E c \in Mixed : GetAccessToken(c)
  \/ Microtask
  \/ \E c \in Callers : ReadFileDone(c)
  \/ \E c \in Callers, ok \in BOOLEAN : ProviderDone(c, ok)
  \/ \E c \in Callers, ok \in BOOLEAN : CodePostDone(c, ok)
  \/ \E c \in Callers, ok \in BOOLEAN, e \in BOOLEAN, t \in BOOLEAN :
       RefreshPostDone(c, ok, e, t)
  \/ \E c \in Callers, ok \in BOOLEAN : MkdirDone(c, ok)
  \/ \E c \in Callers, ok \in BOOLEAN : WriteFileDone(c, ok)
  \/ Tick

SpecPartial == InitPartial /\ [][NextPartial]_vars

\* an instance with client credentials only: no token of either kind, no
\* tokenProvider; a token file may be stored
InitGuard ==
  \E config \in Configs, d \in Disks :
    /\ config.accessToken = 0 /\ config.refreshToken = 0
    /\ ~config.tokenProvider
    /\ InitWith(applyConfig(Fresh, config), d)

\* getAccessToken() callers, as many as NFlows, all issued before any I/O
\* completes
NextGuard ==
  \/ \E c \in Callers : epoch = 0 /\ GetAccessToken(c)
  \/ Microtask
  \/ \E c \in Callers : ReadFileDone(c)
  \/ \E c \in Callers, ok \in BOOLEAN, e \in BOOLEAN, t \in BOOLEAN :
       RefreshPostDone(c, ok, e, t)
  \/ \E c \in Callers, ok \in BOOLEAN : MkdirDone(c, ok)
  \/ \E c \in Callers, ok \in BOOLEAN : WriteFileDone(c, ok)
  \/ Tick

SpecGuard == InitGuard /\ [][NextGuard]_vars

\* an instance with client credentials and a tokenProvider, no token of
\* either kind; a token file may be stored
InitRecover ==
  \E config \in Configs, d \in Disks :
    /\ config.accessToken = 0 /\ config.refreshToken = 0
    /\ config.tokenProvider
    /\ InitWith(applyConfig(Fresh, config), d)

\* up to MaxMixed getAccessToken() calls and withRetry calls beside them,
\* NCallers calls in all; the operation of withRetry succeeds or fails with
\* 401; the provider, the authorization-code exchange and the writes to
\* storage succeed, and refresh responses carry expires_in
NextRecover ==
  \/ \E c \in Mixed : GetAccessToken(c)
  \/ \E c \in GetCallers : WithRetry(c)
  \/ Microtask
  \/ \E c \in Callers : ReadFileDone(c)
  \/ \E c \in Callers : ProviderDone(c, TRUE)
  \/ \E c \in Callers : CodePostDone(c, TRUE)
  \/ \E c \in Callers, ok \in BOOLEAN, t \in BOOLEAN :
       RefreshPostDone(c, ok, TRUE, t)
  \/ \E c \in Callers : MkdirDone(c, TRUE)
  \/ \E c \in Callers : WriteFileDone(c, TRUE)
  \/ \E c \in Callers, r \in {Ok(OpValue), AxonError(401)} :
       OperationDone(c, r)
  \/ Tick

SpecRecover == InitRecover /\ [][NextRecover]_vars

\* a renewable instance: no access token configured
InitLive ==
  \E config \in Configs, d \in Disks :
    /\ config.accessToken = 0
    /\ InitWith(applyConfig(Fresh, config), d)

\* the I/O operation that caller c awaits settles, one way or the other
IODone(c) ==
  \/ ReadFileDone(c)
  \/ \E ok \in BOOLEAN : ProviderDone(c, ok)
  \/ \E ok \in BOOLEAN : CodePostDone(c, ok)
  \/ \E ok \in BOOLEAN, t \in BOOLEAN : RefreshPostDone(c, ok, t, t)
  \/ MkdirDone(c, TRUE)
  \/ \E ok \in BOOLEAN : WriteFileDone(c, ok)
  \/ \E r \in {Ok(OpValue), AxonError(401)} : OperationDone(c, r)

\* getAccessToken() and withRetry() callers, as many as MaxMixed
NextLive ==
  \/ \E c \in Mixed : GetAccessToken(c)
  \/ \E c \in Mixed : WithRetry(c)
  \/ Microtask
  \/ \E c \in Mixed : IODone(c)
  \/ Tick

\* the microtask queue is drained, and every storage, provider and network
\* operation settles
Fairness ==
  /\ WF_vars(Microtask)
  /\ \A c \in Mixed : WF_vars(IODone(c))

SpecLive == InitLive /\ [][NextLive]_vars /\ Fairness

\* identifier of a tenant and client other than the configured ones
OtherId == 2

\* an instance with client credentials only; the token file of its tenant
\* and client holds a record that names another tenant and client
InitForeign ==
  \E config \in Configs, e \in StoredExpiries :
    /\ config.accessToken = 0 /\ config.refreshToken = 0
    /\ ~config.tokenProvider
    /\ InitWith(applyConfig(Fresh, config),
                [p \in Paths \cup {<<OtherId, OtherId>>} |->
                   IF p = <<1, 1>>
                     THEN JSON_stringify([StoredRecord(e) EXCEPT
                                            !.clientId = OtherId,
                                            !.tenantId = OtherId])
                     ELSE NoFile])

\* getAccessToken() callers, as many as MaxMixed; the record is found, so
\* no provider is asked
NextForeign ==
  \/ \E c \in Mixed : GetAccessToken(c)
  \/ Microtask
  \/ \E c \in Callers : ReadFileDone(c)
  \/ \E c \in Callers, ok \in BOOLEAN, e \in BOOLEAN, t \in BOOLEAN :
       RefreshPostDone(c, ok, e, t)
  \/ \E c \in Callers, ok \in BOOLEAN : MkdirDone(c, ok)
  \/ \E c \in Callers, ok \in BOOLEAN : WriteFileDone(c, ok)
  \/ Tick

SpecForeign == InitForeign /\ [][NextForeign]_vars

\* file names of up to n pieces
Names(n) == UNION {[1..k -> Pieces] : k \in 1..n}

\* tenant and client identifiers: text without a dot, <<>> for none given
Ids == {<<>>, <<"t">>, <<"c">>}

\* the names saveToStorage gives its files for these identifiers
StoredNames ==
  {tokenFileName(t, c) : t, c \in Ids \ {<<>>}} \cup {<<"tokens", Dot, "json">>}

\* up to n files, all different, in any order, of names up to MaxShort
\* pieces or of names saveToStorage gives
Listings(n) ==
  {q \in UNION {[1..k -> Names(MaxShort) \cup StoredNames] : k \in 0..n} :
     \A i, j \in 1..Len(q) : q[i] = q[j] => i = j}

\* the storage directory is missing, or holds one file of any name up to
\* MaxName pieces, or up to MaxFiles files of shorter names
InitList ==
  /\ InitCalls(Fresh, [p \in Paths |-> NoFile])
  /\ listed = NotListed /\ cleared = NotCleared /\ saves = <<>>
  /\ NothingShared
  /\ \/ dir = NoDirectory
     \/ \E f \in Names(MaxName) : dir = [exists |-> TRUE, files |-> <<f>>]
     \/ \E fs \in Listings(MaxFiles) : dir = [exists |-> TRUE, files |-> fs]

NextList == ListStoredCredentials

SpecList == InitList /\ [][NextList]_vars

\* the storage directory is missing or holds up to MaxFiles files
InitClear ==
  /\ InitCalls(Fresh, [p \in Paths |-> NoFile])
  /\ listed = NotListed /\ cleared = NotCleared /\ saves = <<>>
  /\ NothingShared
  /\ \/ dir = NoDirectory
     \/ \E fs \in Listings(MaxFiles) : dir = [exists |-> TRUE, files |-> fs]

NextClear ==
  \E t, c \in Ids, denied \in SUBSET Range(dir.files) :
    ClearStoredCredentials(t, c, denied)

SpecClear == InitClear /\ [][NextClear]_vars


\* identifiers as text of up to MaxId pieces, a dot being one piece and
\* neither the first nor the last (as in a GUID or a domain name); <<>> for
\* none given
IdTexts ==
  {<<>>} \cup {x \in UNION {[1..k -> {"t", "c", Dot}] : k \in 1..MaxId} :
                 x[1] # Dot /\ x[Len(x)] # Dot}

InitPath ==
  /\ InitCalls(Fresh, [p \in Paths |-> NoFile])
  /\ dir = NoDirectory /\ listed = NotListed /\ cleared = NotCleared
  /\ saves = <<>>
  /\ NothingShared

\* instances of any tenantId and clientId save, MaxSaves times in all
NextPath == \E t, c \in IdTexts : SaveFor(t, c)

SpecPath == InitPath /\ [][NextPath]_vars

\* configurations of the calls of Azure and of the constructor
SharedConfigs ==
  { [accessToken |-> at, refreshToken |-> 0, tokenProvider |-> FALSE,
     clientId |-> ci, clientSecret |-> 0, tenantId |-> 0, scopes |-> sc] :
      at \in {0, CfgAT}, ci \in {0, 1, 2}, sc \in {Undefined, CustomScopes} }

InitShared ==
  /\ InitCalls(Fresh, [p \in Paths |-> NoFile])
  /\ dir = NoDirectory /\ listed = NotListed /\ cleared = NotCleared
  /\ saves = <<>>
  /\ NothingShared

\* the process-wide configuration is set and reset, instances are
\* constructed with a configuration and without
NextMerge ==
  \/ \E config \in SharedConfigs : AzureConfig(config)
  \/ AzureReset
  \/ \E config \in SharedConfigs : Construct(Explicit(config))
  \/ Construct(NoConfig)

SpecMerge == InitShared /\ [][NextMerge]_vars

\* the process-wide configuration is set and reset, the services of the
\* facade are accessed
NextFacade ==
  \/ \E config \in SharedConfigs : AzureConfig(config)
  \/ AzureReset
  \/ \E s \in Services : AccessService(s)

SpecFacade == InitShared /\ [][NextFacade]_vars

\* configurations with and without scopes
ScopeConfigs ==
  { [accessToken |-> at, refreshToken |-> 0, tokenProvider |-> FALSE,
     clientId |-> ci, clientSecret |-> 0, tenantId |-> 0, scopes |-> sc] :
      at \in {0, CfgAT}, ci \in {0, 1, 2},
      sc \in {Undefined, CustomScopes, OtherScopes} }

\* instances are constructed with a configuration, and applyConfig runs on
\* them again
NextScopes ==
  \/ \E config \in ScopeConfigs : Construct(Explicit(config))
  \/ \E i \in 1..MaxBuilt, config \in ScopeConfigs : Reconfigure(i, config)

SpecScopes == InitShared /\ [][NextScopes]_vars

\* ================================================================ claims
Started == {c \in Callers : kind[c] # "idle"}
Settled(c) == result[c].st # "none"
Getters == {c \in Callers : kind[c] = "get"}

\* N >= 2 getAccessToken() calls, all issued before any I/O completed, and
\* no other call on the instance
ConcurrentGets ==
  /\ Cardinality(Started) >= 2
  /\ \A c \in Started : kind[c] = "get" /\ born[c] = 0

Renewable == cfg.accessToken = 0 /\ cfg.clientId # 0
StoredAtStart == disk0[<<cfg.tenantId, cfg.clientId>>]

\* C1: N >= 2 concurrent getAccessToken() calls on an instance without
\* refresh token and without tokenProvider invoke loadFromStorage exactly
\* once, stored record or not, and all settle alike: the same token for all,
\* or the 'No refresh token available' error for all.
C1_OneLoadForAll ==
  (ConcurrentGets /\ Renewable /\ cfg.refreshToken = 0 /\ ~cfg.tokenProvider)
    => /\ loadCalls = 1
       /\ \A c, d \in Started :
            (Settled(c) /\ Settled(d)) =>
              /\ result[c] = result[d]
              /\ result[c].st = "err" => result[c] = NoRefreshToken

\* a call whose ensureRefreshToken() rejected
ErtRejected(c) ==
  /\ result[c].st = "err"
  /\ result[c] \in {NoRefreshToken, ProviderFailed, ForgeFailed}

RecordWithToken == StoredAtStart.exists /\ StoredAtStart.refreshToken # 0

C4_FirstCallRefreshes ==
  (Renewable /\ cfg.refreshToken # 0 /\ cfg.expiredAt = Undefined
     /\ Started = {1} /\ kind[1] = "get"
     /\ Settled(1))
    => /\ refreshCalls = 1
       /\ result[1] \in {Ok(FirstIssued), RefreshFailed}

\* C5: renewable mode, the held expiry set and passed when getAccessToken()
\* is called: a call that resolves resolves with an access token the token
\* endpoint issued after the call was made, never with the expired token
\* (nor with none).
C5_ExpiredIsRenewed ==
  \A c \in Getters :
    (Renewable /\ atCall[c].expired /\ atCall[c].refreshToken # 0
       /\ result[c].st = "ok")
      => result[c].val >= atCall[c].nextTok

\* C6: access-token-only mode: getAccessToken() resolves with the configured
\* access token and starts no credential check, storage load, provider call,
\* token exchange or storage write, whatever the expiry is and however many
\* calls were made before.
C6_AccessTokenOnlyUntouched ==
  \A c \in Getters :
    cfg.accessToken # 0
      => /\ evs[c] = {}
         /\ Settled(c) => result[c] = Ok(cfg.accessToken)

\* C7: access-token-only mode: a 401 of the resource API surfaces the
\* access-token-only remediation error and starts no refresh exchange, in
\* handleApiError and in withRetry.
C7_AccessTokenOnly401 ==
  \A c \in Callers :
    cfg.accessToken # 0
      => /\ (kind[c] = "api" /\ atCall[c].error = AxonError(401))
              => result[c] = AccessTokenInvalid
         /\ (kind[c] = "retry" /\ Len(opLog[c]) >= 1
               /\ opLog[c][1] = AxonError(401))
              => /\ "refreshPost" \notin evs[c]
                 /\ Settled(c) => result[c] = AccessTokenInvalid

RecoveryErrors == {CannotRecover, ProviderFailed, ForgeFailed}

\* C8: the first execution fails with 401, no retry is in progress and the
\* recovery succeeds: the operation is executed again; when that execution
\* succeeds withRetry resolves with its result, the operation having run
\* exactly twice and the recovery exactly once.
C8_RetryAfter401 ==
  \A c \in Callers :
    kind[c] = "retry" =>
      /\ (Settled(c) /\ recoveries[c] = 1 /\ Len(opLog[c]) = 1)
           => result[c] \in RecoveryErrors
      /\ (Len(opLog[c]) = 2 /\ opLog[c][2].st = "ok")
           => /\ result[c] = opLog[c][2]
              /\ opLog[c][1] = AxonError(401)
              /\ opCalls[c] = 2
              /\ recoveries[c] = 1

C8_Witness ==
  \E c \in Callers :
    /\ kind[c] = "retry" /\ Len(opLog[c]) = 2
    /\ opLog[c][1] = AxonError(401)
    /\ result[c] = Ok(OpValue)
    /\ opCalls[c] = 2 /\ recoveries[c] = 1

\* C9: one withRetry call executes the operation at most twice and runs
\* invalidate-and-refresh at most once, whatever the failures; a failure of
\* the retry, a 401 included, settles the call without further recovery.
C9_AtMostOneRetry ==
  \A c \in Callers :
    /\ opCalls[c] <= 2
    /\ recoveries[c] <= 1
    /\ Len(opLog[c]) = 2 => /\ pc[c] = "done"
                            /\ Settled(c)
                            /\ recoveries[c] = 1

C9_Witness ==
  \E c \in Callers :
    /\ kind[c] = "retry" /\ Len(opLog[c]) = 2
    /\ opLog[c][2] = AxonError(401)
    /\ opCalls[c] = 2 /\ recoveries[c] = 1 /\ Settled(c)

\* C10: a failure of the re-executed operation reaches the caller through
\* the normalization step, as a failure of the first execution does.
C10_RetryFailureNormalized ==
  \A c \in Callers :
    (kind[c] = "retry" /\ Len(opLog[c]) = 2 /\ opLog[c][2].st = "err")
      => result[c] = enhanceError(opLog[c][2])

\* a failure other than an HTTP 401
NonAuthFailure(r) == r.st = "err" /\ ~(r.msg = "AxonError" /\ r.status = 401)

\* the error categories by status; every other error unchanged
Category(r) ==
  IF r.msg = "AxonError" /\ r.status = 403 THEN Err("Permission denied", 0)
  ELSE IF r.msg = "AxonError" /\ r.status = 404 THEN Err("Resource not found", 0)
  ELSE IF r.msg = "AxonError" /\ r.status = 409 THEN Err("Conflict", 0)
  ELSE IF r.msg = "AxonError" /\ r.status >= 500
    THEN Err("Microsoft server error", r.status)
  ELSE r

\* C11 as stated: a first failure other than a 401 starts no recovery, no
\* exchange and no provider call, the operation runs exactly once, and
\* withRetry rejects with the category of the status, otherwise with the
\* original error.
C11_NonAuthFailureSurfaced ==
  \A c \in Callers :
    (kind[c] = "retry" /\ Len(opLog[c]) >= 1 /\ NonAuthFailure(opLog[c][1]))
      => /\ opCalls[c] = 1
         /\ recoveries[c] = 0
         /\ evs[c] = {"operation"}
         /\ result[c] = Category(opLog[c][1])

\* C11 amended: as above for every failure that is an Error instance; a
\* thrown value that is no Error instance is wrapped in an 'Unknown error'
\* Error. The step that handles the failure leaves every field of the
\* instance as it was.
C11_NonAuthFailureWrapped ==
  /\ [](\A c \in Callers :
          (kind[c] = "retry" /\ Len(opLog[c]) >= 1
             /\ NonAuthFailure(opLog[c][1]))
            => /\ opCalls[c] = 1
               /\ recoveries[c] = 0
               /\ evs[c] = {"operation"}
               /\ result[c] = IF opLog[c][1] = ThrownValue
                                THEN Err("Unknown error", 0)
                                ELSE Category(opLog[c][1]))
  /\ [][\A c \in Callers :
          (Len(opLog[c]) = 0 /\ Len(opLog'[c]) = 1
             /\ NonAuthFailure(opLog'[c][1]))
            => auth' = auth]_vars

C11_Witness ==
  \E c, d \in Callers :
    /\ kind[c] = "retry" /\ opLog[c] = <<AxonError(403)>>
    /\ result[c] = Err("Permission denied", 0)
    /\ kind[d] = "retry" /\ opLog[d] = <<AxonError(500)>>
    /\ result[d] = Err("Microsoft server error", 500)
    /\ auth.refreshToken = CfgRT /\ refreshCalls = 0

\* the step in which caller c starts the recovery
StartsRecovery(c) == recoveries'[c] = recoveries[c] + 1

\* the step in which the refresh exchange of caller c's recovery fails
RecoveryRefreshFails(c) ==
  pc[c] = "rec_refresh" /\ io[c] = "refreshPost" /\ io'[c] # "refreshPost"
    /\ nextTok' = nextTok

\* C12: the recovery first clears access token and expiry, then starts a
\* refresh exchange exactly when a refresh token is held; the provider is
\* asked only when no refresh token is held or after that exchange failed;
\* with neither path the call rejects with the unrecoverable error and the
\* operation is not executed again.
C12_RecoveryOrder ==
  /\ [][\A c \in Callers :
          /\ StartsRecovery(c)
               => /\ auth'.accessToken = 0 /\ auth'.expiredAt = 0
                  /\ ("refreshPost" \in evs'[c]) <=> (auth.refreshToken # 0)
                  /\ ("provider" \in evs'[c])
                       <=> (auth.refreshToken = 0 /\ auth.tokenProvider)
                  /\ (auth.refreshToken = 0 /\ ~auth.tokenProvider)
                       => result'[c] = CannotRecover
          /\ (kind[c] = "retry" /\ "provider" \notin evs[c]
                /\ "provider" \in evs'[c] /\ ~StartsRecovery(c))
               => RecoveryRefreshFails(c)
          /\ (RecoveryRefreshFails(c) /\ ~auth.tokenProvider)
               => result'[c] = CannotRecover]_vars
  /\ [](\A c \in Callers :
          (kind[c] = "retry" /\ result[c] = CannotRecover)
            => opCalls[c] = 1 /\ Len(opLog[c]) = 1 /\ pc[c] = "done")

C12_Witness ==
  \E c \in Callers :
    /\ kind[c] = "retry"
    /\ {"recover", "refreshPost", "provider", "codePost"} \subseteq evs[c]
    /\ Len(opLog[c]) = 2 /\ result[c] = Ok(OpValue)

\* a withRetry call whose recovery failed: the recovery ran, the call has
\* settled and the operation was not executed again
RecoveryFailed(c) ==
  kind[c] = "retry" /\ recoveries[c] = 1 /\ Settled(c) /\ Len(opLog[c]) = 1

\* C13: whenever the recovery started by a 401 fails (refresh rejected and
\* no provider, provider exchange failed, no path at all), withRetry rejects
\* with the unrecoverable authentication error, never with the renewal
\* failure error or the provider's own error.
C13_RecoveryFailureUnrecoverable ==
  \A c \in Callers : RecoveryFailed(c) => result[c] = CannotRecover

\* no call is in progress
Quiescent == \A c \in Callers : pc[c] \in {"idle", "done"}

\* the token endpoint has answered an exchange with tokens
ExchangeSucceeded == nextTok > FirstIssued

\* the record saveToStorage writes for the fields the instance holds
HeldRecord ==
  [exists |-> TRUE, wellFormed |-> TRUE, refreshToken |-> auth.refreshToken,
   accessToken |-> auth.accessToken, expiresAt |-> auth.expiredAt,
   clientId |-> auth.clientId, tenantId |-> auth.tenantId]

\* C14: renewable instance, a refresh or code exchange has succeeded, every
\* call has settled and no storage write has failed: the stored record of
\* the instance's tenant and client holds the refresh token, access token
\* and expiry the instance holds.
C14_StoredAfterExchange ==
  (Renewable /\ ExchangeSucceeded /\ Quiescent /\ writeFailed = 0)
    => disk[<<auth.tenantId, auth.clientId>>] = JSON_stringify(HeldRecord)

StoredFields ==
  {"exists", "wellFormed", "refreshToken", "accessToken", "expiresAt", "clientId",
   "tenantId"}

\* a record without the client secret: no field named for it, and no field
\* whose value is the secret
SecretFree(rec) ==
  /\ DOMAIN rec = StoredFields
  /\ \A f \in DOMAIN rec \ {"exists", "wellFormed"} : rec[f] # auth.clientSecret

\* C15: no file of the storage directory, and no record handed to
\* fs.writeFile, ever holds the clientSecret: a written record has the
\* fields refreshToken, accessToken, expiresAt, clientId and tenantId only.
C15_SecretNeverStored ==
  /\ auth.clientSecret = Secret
  /\ \A p \in Paths : SecretFree(disk[p])
  /\ \A c \in Callers : SecretFree(wbuf[c].rec)

C15_Witness ==
  /\ auth.clientSecret = Secret
  /\ \E p \in Paths :
       /\ disk[p] # disk0[p]
       /\ disk[p].refreshToken = auth.refreshToken
       /\ disk[p].accessToken >= FirstIssued

\* credentials saveToStorage can be called with
Tokens == {CfgRT, StoredRT, StoredAT} \cup (FirstIssued..(FirstIssued + 7))

Credentials ==
  [exists : {TRUE}, wellFormed : {TRUE}, refreshToken : Tokens,
   accessToken : Tokens \cup {0},
   expiresAt : {Undefined} \cup (0..(MaxNow + ExpiresIn)),
   clientId : {1}, tenantId : {1}]

\* caller c's loadFromStorage reads its file in this step
Loads(c) == io[c] = "readFile" /\ io'[c] # "readFile"

MissingFields ==
  {f \in {"clientId", "clientSecret", "tenantId"} : cfg[f] = 0}

\* the fields a 'Missing required credentials' message lists
ListedFields(r) ==
  {f \in {"clientId", "clientSecret", "tenantId"} :
     \/ f = "clientId" /\ r.status % 2 = 1
     \/ f = "clientSecret" /\ (r.status \div 2) % 2 = 1
     \/ f = "tenantId" /\ (r.status \div 4) % 2 = 1}

\* C17: an instance that is not access-token-only and lacks any of
\* clientId, clientSecret, tenantId: getAccessToken() rejects at once with
\* 'Missing required credentials' listing exactly the missing fields; no
\* storage load, provider call or exchange is started, by this call or by
\* a retry of it.
C17_MissingCredentialsFatal ==
  \A c \in Getters :
    (cfg.accessToken = 0 /\ MissingFields # {})
      => /\ pc[c] = "done"
         /\ result[c].st = "err"
         /\ result[c].msg = "Missing required credentials"
         /\ ListedFields(result[c]) = MissingFields
         /\ evs[c] = {"creds"}
         /\ loadCalls = 0 /\ providerCalls = 0 /\ codeExchanges = 0
         /\ refreshCalls = 0 /\ disk = disk0

C17_Witness ==
  /\ cfg.accessToken = 0 /\ cfg.refreshToken # 0 /\ cfg.tokenProvider
  /\ MissingFields = {"clientSecret", "tenantId"}
  /\ disk0[<<1, 1>>].exists
  /\ \A c \in Mixed : kind[c] = "get" /\ ListedFields(result[c]) = MissingFields

\* caller c's ensureRefreshToken has a storage load or a provider exchange
\* running
GuardedIO(c) ==
  \/ pc[c] = "ert_own1" /\ io[c] = "readFile"
  \/ pc[c] = "ert_own2" /\ io[c] \in {"provider", "codePost"}

\* a provider attempt of an ensureRefreshToken call has failed
ProviderAttemptFailed ==
  \E d \in Callers : kind[d] = "get" /\ result[d] \in {ProviderFailed, ForgeFailed}

\* C18: storageLoadPromise is null before the first call, non-null while a
\* storage load or provider exchange of ensureRefreshToken is running, and
\* null again once every call has settled, whether it succeeded or failed;
\* a call made after a failed provider attempt is not held back: it starts
\* a load of its own.
C18_GuardReleased ==
  /\ [](/\ Started = {} => auth.storageLoadPromise = 0
        /\ (\E c \in Callers : GuardedIO(c)) => auth.storageLoadPromise # 0
        /\ Quiescent => auth.storageLoadPromise = 0)
  /\ [][\A c \in Callers :
          (ProviderAttemptFailed /\ Quiescent /\ auth.refreshToken = 0
             /\ kind[c] = "idle" /\ kind'[c] = "get")
            => GuardedIO(c)']_vars

\* every call found a refresh token and an access token whose expiry has
\* passed on the instance
ExpiredAtCall ==
  \A c \in Started :
    atCall[c].expired /\ atCall[c].refreshToken # 0 /\ atCall[c].accessToken # 0

\* C19: N >= 2 concurrent getAccessToken() calls on an instance holding a
\* refresh token and an expired access token perform exactly one refresh
\* exchange: never a second one, and once all have settled either all
\* resolved with the access token that exchange returned or all rejected.
C19_OneRefreshForAll ==
  (ConcurrentGets /\ Renewable /\ ExpiredAtCall)
    => /\ refreshCalls <= 1
       /\ (\A c \in Started : Settled(c))
            => /\ refreshCalls = 1
               /\ \/ \A c \in Started : result[c] = Ok(FirstIssued)
                  \/ \A c \in Started : result[c].st = "err"

Dots(f) == Cardinality({i \in 1..Len(f) : f[i] = Dot})
NoDot(x) == \A i \in 1..Len(x) : x[i] # Dot

\* the name is tokens.json or tokens.<x>.<y>.json
NamedTokenFile(f) ==
  \/ f = <<"tokens", Dot, "json">>
  \/ /\ Dots(f) = 3 /\ Len(f) >= 5
     /\ f[1] = "tokens" /\ f[2] = Dot
     /\ f[Len(f) - 1] = Dot /\ f[Len(f)] = "json"

\* the name begins with the text tokens and ends with the text .json
NamedTokensToJson(f) ==
  Len(f) >= 3 /\ f[1] = "tokens" /\ f[Len(f) - 1] = Dot /\ f[Len(f)] = "json"

\* four dot-separated segments, the first being tokens
FourSegments(f) == Dots(f) = 3 /\ f[1] = "tokens" /\ f[2] = Dot

\* the entry of a four-segment name carries the second and third segment
\* as tenantId and clientId, any other entry carries the file name only
EntryShape(e) ==
  IF FourSegments(e.file)
    THEN /\ DOMAIN e = {"tenantId", "clientId", "file"}
         /\ NoDot(e.tenantId) /\ NoDot(e.clientId)
         /\ startsWith(e.file, <<"tokens", Dot>> \o e.tenantId \o <<Dot>>
                                 \o e.clientId \o <<Dot>>)
    ELSE DOMAIN e = {"file"}

\* the list returned has one entry for each file of the set listable, none
\* for another file, each entry of the right shape; it is empty when the
\* directory is missing
ListsExactly(listable) ==
  listed.done =>
    IF ~dir.exists THEN listed.entries = <<>>
    ELSE LET files == dir.files
             entries == listed.entries
         IN /\ Len(entries)
                 = Cardinality({i \in 1..Len(files) : files[i] \in listable})
            /\ \A i \in 1..Len(files) :
                 files[i] \in listable
                   <=> \E j \in 1..Len(entries) : entries[j].file = files[i]
            /\ \A j \in 1..Len(entries) : EntryShape(entries[j])

\* C20 as stated: listStoredCredentials returns one entry per file named
\* tokens.json or tokens.<x>.<y>.json and no entry for any other file; a
\* four-segment name starting with tokens yields {tenantId, clientId, file},
\* any other listed name a legacy entry; a missing directory yields [].
C20_ListsNamedTokenFiles ==
  ListsExactly({f \in Range(dir.files) : NamedTokenFile(f)})

\* C20, amended: listStoredCredentials returns one entry per file whose name
\* starts with 'tokens' and ends with '.json' (tokens.json and
\* tokens.<x>.<y>.json among them) and no entry for any other file; a
\* four-segment name starting with tokens yields {tenantId, clientId, file},
\* any other listed name a legacy entry; a missing directory yields [].
C20_ListsTokensToJson ==
  ListsExactly({f \in Range(dir.files) : NamedTokensToJson(f)})

C20_Witness ==
  /\ listed.done
  /\ dir.files = << <<"tokens", Dot, "t", Dot, "c", Dot, "json">> >>
  /\ listed.entries = << [tenantId |-> <<"t">>, clientId |-> <<"c">>,
                          file |-> dir.files[1]] >>

\* clearStoredCredentials was called with both identifiers
ClearedOne == cleared.done /\ cleared.tenantId # <<>> /\ cleared.clientId # <<>>

\* C21: clearStoredCredentials(t, c) with both identifiers resolves, removes
\* tokens.<t>.<c>.json (unless the file system refuses the removal) and
\* leaves every other file of the directory as it was; when the file is
\* already absent nothing changes.
C21_ClearsOnlyThatFile ==
  ClearedOne =>
    LET target == tokenFileName(cleared.tenantId, cleared.clientId)
        before == cleared.before
    IN /\ ~cleared.raised
       /\ dir.exists = before.exists
       /\ Without(dir.files, {target}) = Without(before.files, {target})
       /\ target \notin cleared.denied => target \notin Range(dir.files)
       /\ target \notin Range(before.files) => dir = before

C21_Witness ==
  /\ ClearedOne
  /\ cleared.before.files
       = << <<"tokens", Dot, "t", Dot, "c", Dot, "json">>,
            <<"tokens", Dot, "c", Dot, "t", Dot, "json">> >>
  /\ dir.files = << <<"tokens", Dot, "c", Dot, "t", Dot, "json">> >>

\* C22: the files resolved for two different (tenantId, clientId) pairs,
\* both identifiers known, differ: a save for one pair never goes to the
\* file of another pair. The file of a pair is tokens.<tenantId>.<clientId>
\* .json, and tokens.json when either identifier is unknown.
C22_TenantIsolation ==
  \A i, j \in 1..Len(saves) :
    LET a == saves[i]
        b == saves[j]
    IN /\ a.file = storageFileName(a.tenantId, a.clientId)
       /\ (/\ a.tenantId # <<>> /\ a.clientId # <<>>
           /\ b.tenantId # <<>> /\ b.clientId # <<>>
           /\ <<a.tenantId, a.clientId>> # <<b.tenantId, b.clientId>>)
            => a.file # b.file

Parameters ==
  {"accessToken", "refreshToken", "tokenProvider", "clientId", "clientSecret",
   "tenantId", "scopes"}

\* the configuration passes a value for the parameter
Supplied(config, p) ==
  IF p = "scopes" THEN Has(config, "scopes")
  ELSE IF p = "tokenProvider" THEN config.tokenProvider
  ELSE config[p] # 0

\* explicit value first, else the value of the process-wide configuration,
\* else the default
Merged(b, p) ==
  IF b.arg.given /\ Supplied(b.arg.config, p) THEN b.arg.config[p]
  ELSE IF b.global.set THEN b.global.inst[p]
  ELSE Fresh[p]

\* C23: every parameter of a constructed instance is the explicitly passed
\* value when one was passed, and otherwise the value of the process-wide
\* configuration; with no explicit configuration every parameter is that of
\* the process-wide configuration.
C23_FieldwiseMerge ==
  \A i \in 1..Len(built) :
    built[i].service = "AzureAuth"
      => \A p \in Parameters : built[i].auth[p] = Merged(built[i], p)

\* the value a configuration call leaves for a parameter: the one it
\* passes, else the default (Azure.reset() passes nothing)
Configured(call, p) ==
  IF call.given /\ Supplied(call.config, p) THEN call.config[p] ELSE Fresh[p]

\* the configuration call in force after n calls of config() and reset()
InForce(n) == IF n = 0 THEN NoConfig ELSE configCalls[n]

\* C24: each Azure.config() replaces the process-wide configuration as a
\* whole, and config() and reset() invalidate the cached services: two
\* accesses to the same service return the same instance exactly when no
\* config() or reset() was called between them, and the instance returned
\* is bound to the configuration in force at the access.
C24_ConfigReplacesAndInvalidates ==
  /\ globalInstance.set = InForce(Len(configCalls)).given
  /\ \A p \in Parameters :
       globalInstance.inst[p] = Configured(InForce(Len(configCalls)), p)
  /\ \A i, j \in 1..Len(accessLog) :
       accessLog[i].service = accessLog[j].service
         => (accessLog[i].id = accessLog[j].id
               <=> accessLog[i].calls = accessLog[j].calls)
  /\ \A i \in 1..Len(accessLog) :
       /\ accessLog[i].id \in 1..Len(built)
       /\ built[accessLog[i].id].service = accessLog[i].service
       /\ \A p \in Parameters :
            built[accessLog[i].id].auth[p]
              = Configured(InForce(accessLog[i].calls), p)

C24_Witness ==
  /\ Len(accessLog) = 3 /\ Len(configCalls) = 2
  /\ \A i \in 1..3 : accessLog[i].service = "outlook"
  /\ accessLog[1].calls = 1 /\ accessLog[2].calls = 1 /\ accessLog[3].calls = 2
  /\ accessLog[1].id = accessLog[2].id /\ accessLog[3].id # accessLog[1].id
  /\ configCalls[1].given /\ configCalls[2].given
  /\ configCalls[1].config.accessToken = CfgAT
  /\ configCalls[2].config.accessToken = 0
  /\ built[accessLog[3].id].auth.accessToken = 0

\* the configurations applied to an instance that supply the parameter
Supplying(applied, p) == {k \in 1..Len(applied) : Supplied(applied[k], p)}

Least(S) == CHOOSE k \in S : \A m \in S : k <= m
Greatest(S) == CHOOSE k \in S : \A m \in S : k >= m

\* C25: once a configuration supplying scopes has been applied to an
\* instance, its scopes stay those whatever is applied later, while every
\* other parameter is that of the latest configuration supplying it.
C25_ScopesFixedOnceSet ==
  \A i \in 1..Len(built) :
    LET b == built[i]
    IN \A p \in Parameters :
         LET S == Supplying(b.applied, p)
         IN b.service = "AzureAuth" =>
              b.auth[p] = IF S = {} THEN Fresh[p]
                          ELSE IF p = "scopes" THEN b.applied[Least(S)][p]
                          ELSE b.applied[Greatest(S)][p]

C25_Witness ==
  /\ Len(built) = 1 /\ Len(built[1].applied) = 2
  /\ built[1].applied[1].scopes = CustomScopes
  /\ built[1].applied[2].scopes = OtherScopes
  /\ built[1].applied[1].clientId = 1 /\ built[1].applied[2].clientId = 2
  /\ built[1].auth.scopes = CustomScopes /\ built[1].auth.clientId = 2

\* the credentials an instance holds in memory
InMemory(a) ==
  <<a.refreshToken, a.accessToken, a.expiredAt, a.clientId, a.tenantId>>

\* the save that caller c awaits fails in this step
SaveFails(c) ==
  /\ writeFailed' > writeFailed
  /\ io[c] \in {"mkdir", "writeFile"} /\ io'[c] # io[c]

\* C26: a failing fs.mkdir or fs.writeFile of saveToStorage rejects nothing
\* and leaves the credentials in memory as they were; the getAccessToken()
\* call whose save after a refresh failed goes on to return, and resolves
\* with the access token the instance holds, one the token endpoint issued.
C26_SaveNeverRejects ==
  [][\A c \in Callers :
       /\ SaveFails(c) =>
            /\ InMemory(auth') = InMemory(auth)
            /\ result'[c].st # "err" /\ promise'[c].st # "err"
            /\ pc[c] = "chk_save" => (pc'[c] = "get_ret" /\ c \in Range(mq'))
       /\ ({"refreshPost", "saveFailed"} \subseteq evs[c] /\ pc[c] = "get_ret"
             /\ result'[c] # result[c]) =>
            /\ result'[c] = Ok(auth.accessToken)
            /\ auth.accessToken >= FirstIssued]_vars

\* the file fs.readFile was asked for by the load that caller c awaits
FileRead(c) == disk[wbuf[c].path]
LoadSettles(c) == io[c] = "readFile" /\ io'[c] # "readFile"

\* C27: when the file is missing or is not JSON, loadFromStorage rejects
\* nothing and returns false, and refreshToken, accessToken, expiry, clientId
\* and tenantId of the instance are what they were before the load.
C27_LoadNeverRejects ==
  [][\A c \in Callers :
       (LoadSettles(c) /\ (~FileRead(c).exists \/ ~FileRead(c).wellFormed)) =>
         /\ ~loadFromStorage(auth, FileRead(c)).found
         /\ promise'[c] = Ok(0)
         /\ InMemory(auth') = InMemory(auth)]_vars

C27_Witness ==
  \E c \in Callers :
    /\ disk0[<<1, 1>>] = Malformed /\ disk = disk0
    /\ cfg.clientId = 1 /\ cfg.tenantId = 1
    /\ "readFile" \in evs[c] /\ promise[c] = Ok(0)
    /\ result[c] = NoRefreshToken
    /\ auth.refreshToken = 0

\* caller c's flow enters the try block of saveToStorage in this step
SaveStarts(c) == io'[c] = "mkdir" /\ io[c] # "mkdir"

\* C28: saveToStorage goes on to fs.mkdir and fs.writeFile only on an instance
\* that is not access-token-only and holds a refresh token, and nothing else
\* creates the directory or writes the file.
C28_NoSaveWithoutRefreshToken ==
  [][/\ \A c \in Callers :
          /\ SaveStarts(c) => (~auth'.isAccessTokenOnly /\ auth'.refreshToken # 0)
          /\ (io'[c] = "writeFile" /\ io[c] # "writeFile") => io[c] = "mkdir"
     /\ disk' # disk => \E c \in Callers : io[c] = "writeFile"]_vars

\* an access-token-only instance with a tokenProvider: the recovery of
\* withRetry has exchanged a code and called saveToStorage, and nothing was
\* written
C28_Witness ==
  \E c \in Callers :
    /\ auth.isAccessTokenOnly /\ auth.refreshToken # 0
    /\ kind[c] = "retry" /\ "codePost" \in evs[c] /\ opCalls[c] = 2
    /\ \A d \in Callers : evs[d] \cap {"mkdir", "writeFile"} = {}
    /\ disk = disk0

\* C29: on an instance configured with a tokenProvider and without refresh
\* token, no getAccessToken() call, alone or among concurrent ones, starts a
\* loadFromStorage.
C29_ProviderSkipsStorage ==
  (Renewable /\ cfg.refreshToken = 0 /\ cfg.tokenProvider)
    => /\ loadCalls = 0
       /\ \A c \in Getters : "readFile" \notin evs[c]

\* the storage load or provider exchange that caller c's ensureRefreshToken
\* started and assigned to storageLoadPromise has not settled
InFlight(c) == pc[c] \in {"ert_own1", "ert_own2"} /\ promise[c].st = "pending"

\* C30: at most one storage load or provider exchange started by
\* ensureRefreshToken is unsettled at any time, and storageLoadPromise is
\* not given another value while the one it refers to is unsettled.
C30_OneGuardedOperation ==
  /\ [](Cardinality({c \in Callers : InFlight(c)}) <= 1)
  /\ [][(auth.storageLoadPromise # 0
           /\ auth'.storageLoadPromise # auth.storageLoadPromise)
          => ~InFlight(auth.storageLoadPromise)]_vars

ProviderErrors == {ProviderFailed, ForgeFailed}

\* caller w's ensureRefreshToken awaits a storageLoadPromise it did not create
AwaitsGuard(w) == pc[w] \in {"ert_w1", "ert_w2", "ert_w3"}

\* C31: when the provider exchange that storageLoadPromise refers to fails,
\* every ensureRefreshToken caller awaiting it is resumed with that error and
\* rejects with it as it is, starting no provider exchange and no storage
\* load; such a caller has started none earlier in its call either.
C31_ProviderFailureShared ==
  /\ [][\A o \in Callers :
          (pc[o] = "ert_own2" /\ promise[o].st = "pending"
             /\ promise'[o].st = "err")
            => /\ promise'[o] \in ProviderErrors
               /\ \A w \in Callers :
                    (AwaitsGuard(w) /\ w \in Range(waiters[o]))
                      => rv'[w] = promise'[o] /\ w \in Range(mq')]_vars
  /\ [][\A w \in Callers :
          (AwaitsGuard(w) /\ mq # <<>> /\ Head(mq) = w /\ rv[w].st = "err"
             /\ pc'[w] # pc[w])
            => /\ result'[w] = rv[w]
               /\ loadCalls' = loadCalls /\ providerCalls' = providerCalls
               /\ codeExchanges' = codeExchanges
               /\ evs'[w] \cap {"readFile", "provider", "codePost"} = {}]_vars

\* three concurrent calls, one provider exchange, which failed: all three
\* rejected with its error
C31_Witness ==
  /\ Started = GetCallers
  /\ providerCalls = 1 /\ loadCalls = 1
  /\ \E e \in ProviderErrors : \A c \in GetCallers : result[c] = e
  /\ Cardinality({c \in GetCallers : "provider" \in evs[c]}) = 1

\* caller c's withRetry is between its first 401 and the settlement of its
\* retry: recovering, or executing the operation again
Recovering(c) ==
  kind[c] = "retry" /\ pc[c] \in {"rec_refresh", "rec_forge", "op2"}

\* the first execution of caller c's operation fails with r in this step
FirstFailure(c, r) ==
  /\ pc[c] = "op1" /\ opLog[c] = <<>> /\ opLog'[c] = <<r>>

\* C32: at most one withRetry call is recovering or retrying at a time; a
\* call whose operation fails with 401 while another one is, is not executed
\* again, starts no recovery and rejects with the error enhanceError makes of
\* a 401.
C32_OneRecoveryAtATime ==
  /\ [](Cardinality({c \in Callers : Recovering(c)}) <= 1)
  /\ [][\A c \in Callers :
          (FirstFailure(c, AxonError(401))
             /\ \E d \in Callers \ {c} : Recovering(d))
            => /\ result'[c] = enhanceError(AxonError(401))
               /\ opCalls'[c] = 1 /\ recoveries'[c] = 0
               /\ auth' = auth]_vars

C32_Witness ==
  \E c, d \in Callers :
    /\ c # d /\ Recovering(d) /\ recoveries[d] = 1
    /\ kind[c] = "retry" /\ opLog[c] = <<AxonError(401)>>
    /\ born[c] = 0 /\ born[d] = 0
    /\ result[c] = enhanceError(AxonError(401)) /\ recoveries[c] = 0

\* C33: isRetrying is true exactly while some withRetry call is between its
\* first 401 and the settlement of its retry; it is false again once that
\* call has settled, and a 401 that finds no call recovering starts a
\* recovery of its own, which the retry follows unless the recovery throws.
C33_GuardFollowsRecovery ==
  /\ [](auth.isRetrying <=> \E c \in Callers : Recovering(c))
  /\ [][\A c \in Callers :
          (FirstFailure(c, AxonError(401))
             /\ ~\E d \in Callers : Recovering(d))
            => /\ recoveries'[c] = 1
               /\ \/ Recovering(c)' /\ auth'.isRetrying
                  \/ result'[c] = CannotRecover /\ ~auth'.isRetrying]_vars

\* a second recovery on the instance, after the call that made the first
\* has settled
C33_Witness ==
  \E c, d \in Callers :
    /\ c # d /\ kind[c] = "retry" /\ recoveries[c] = 1 /\ Len(opLog[c]) = 2
    /\ result[c].st # "none"
    /\ Recovering(d) /\ recoveries[d] = 1 /\ pc[d] = "op2"
    /\ auth.isRetrying

\* the refresh exchange that caller c awaits fails in this step
RefreshFails(c) ==
  /\ io[c] = "refreshPost" /\ io'[c] # "refreshPost"
  /\ nextTok' = nextTok

\* C34: a failing refresh exchange leaves refreshToken, accessToken and
\* expiry of the instance as they were when it was sent, and the promise of
\* refreshAccessToken rejects with 'Failed to refresh access token' whatever
\* was thrown: a getAccessToken() call whose own exchange failed rejects with
\* that error, and the recovery of withRetry surfaces nothing of it.
C34_RefreshFailureGeneric ==
  /\ [][\A c \in Callers : RefreshFails(c) =>
          /\ InMemory(auth') = InMemory(auth)
          /\ pc[c] = "chk_own" => promise'[c] = RefreshFailed
          /\ pc[c] = "rec_refresh" => result'[c] \in {NoResult, CannotRecover}]_vars
  /\ [](\A c \in Getters :
          ("refreshPost" \in evs[c] /\ result[c].st = "err")
            => result[c] = RefreshFailed)

C34_Witness ==
  \E c \in Getters :
    /\ "refreshPost" \in evs[c] /\ result[c] = RefreshFailed
    /\ refreshCalls = 1 /\ nextTok = FirstIssued
    /\ cfg.refreshToken # 0 /\ auth.refreshToken = cfg.refreshToken
    /\ auth.accessToken = atCall[c].accessToken

\* the step in which the refresh exchange of c succeeds
RefreshSucceeds(c) ==
  /\ io[c] = "refreshPost" /\ io'[c] # "refreshPost"
  /\ nextTok' = nextTok + 2

\* the step in which a refresh exchange is sent
RefreshSent == refreshCalls' = refreshCalls + 1

\* C35: a successful refresh response that carries a refresh token replaces
\* the held one by it, one that carries none leaves the held one unchanged,
\* and the held expiry is either left as it was or set from expires_in;
\* every refresh exchange sends the token held when it is sent, and once a
\* response has rotated the token no exchange sends an older one (tokens of
\* the token endpoint are numbered in the order they are issued, configured
\* and stored ones are below them).
C35_RotatedTokenUsed ==
  /\ [][\A c \in Callers : RefreshSucceeds(c) =>
          /\ auth'.refreshToken
               = IF granted' # 0 THEN granted' ELSE auth.refreshToken
          /\ granted' \in {0, nextTok + 1}
          /\ auth'.accessToken = nextTok
          /\ auth'.expiredAt \in {auth.expiredAt, now + ExpiresIn}]_vars
  /\ [][RefreshSent => sentRT' = auth.refreshToken]_vars
  /\ [][(RefreshSent /\ granted # 0) => sentRT' >= granted]_vars

\* getAccessToken() call c was made on a renewable instance that held a
\* refresh token and an expiry that is still in the future
HeldValid(c) ==
  /\ kind[c] = "get" /\ ~auth.isAccessTokenOnly
  /\ atCall[c].refreshToken # 0 /\ atCall[c].expiredAt > now

\* what a call can start: storage load, provider call, token exchanges,
\* storage write
Started_IO ==
  {"readFile", "provider", "codePost", "refreshPost", "mkdir", "writeFile"}

\* C36: as long as the expiry held when it was made is in the future, a
\* getAccessToken() call made while a refresh token is held has started no
\* storage load, provider call, token exchange or storage write, has
\* resolved, if it has settled, with the access token held when it was made,
\* and none of its steps changes refreshToken, accessToken, expiredAt,
\* clientId or tenantId of the instance.
C36_HeldTokenReturned ==
  /\ [](\A c \in Callers : HeldValid(c) =>
          /\ evs[c] \cap Started_IO = {}
          /\ io[c] = "none"
          /\ Settled(c) => result[c] = Ok(atCall[c].accessToken))
  /\ [][\A c \in Callers : (HeldValid(c)' /\ pc'[c] # pc[c])
          => InMemory(auth') = InMemory(auth)]_vars

\* C37: on an instance that is not access-token-only no getAccessToken()
\* call resolves with the empty access token, whether it is the first call,
\* runs while a recovery of withRetry is in progress, or follows a recovery
\* that failed.
C37_NeverEmptyToken ==
  \A c \in Getters :
    (~auth.isAccessTokenOnly /\ result[c].st = "ok") => result[c].val # 0

\* C38: provided every storage, provider and network operation settles,
\* every getAccessToken() and every withRetry() call that was made
\* eventually resolves or rejects, whatever the other calls do and however
\* the operations end.
C38_EveryCallSettles ==
  \A c \in Mixed : (kind[c] # "idle") ~> Settled(c)

\* a getAccessToken() call made without refresh token while another call was
\* loading has settled without a load of its own: it waited on the guard
C38_Witness ==
  \E c, d \in Mixed :
    /\ kind[c] = "get" /\ Settled(c) /\ Settled(d)
    /\ atCall[c].refreshToken = 0 /\ cfg.clientId # 0
    /\ "readFile" \notin evs[c] /\ "readFile" \in evs[d]

\* a load of getAccessToken() call c has found a record
LoadedBy(c) ==
  /\ kind[c] = "get" /\ "readFile" \in evs[c] /\ io[c] # "readFile"
  /\ disk0[<<cfg.tenantId, cfg.clientId>>].exists

\* C39: once a load of a getAccessToken() call has found a record, clientId
\* and tenantId of the instance are the configured ones, and its storage
\* path is the path of the configured tenant and client, whatever the
\* record holds.
C39_IdentityKept ==
  (\E c \in Callers : LoadedBy(c))
    => /\ auth.clientId = cfg.clientId /\ auth.tenantId = cfg.tenantId
       /\ auth.storagePath = <<cfg.tenantId, cfg.clientId>>

====
